---- MODULE Spec2Model ----
(***************************************************************************)
(* Model of the metacache listing engine of cmd/metacache-server-pool.go:  *)
(* listPath (erasureServerPools and erasureSingle), listMerged with its    *)
(* per-key resolver, and the applyBucketActions filter.                    *)
(*                                                                         *)
(* Object names are the naturals 1..NumKeys in lexical order.  Errors are  *)
(* strings: "nil", "EOF" (io.EOF), "Canceled" (context.Canceled),          *)
(* "Deadline" (context.DeadlineExceeded), "NotFound" (errFileNotFound),    *)
(* "DiskFull" (errDiskFull) and "Other" (any other error).                 *)
(***************************************************************************)
EXTENDS Integers, Sequences, FiniteSets, TLC

\* ------------------------------------------------------------------ bounds
NumKeys == 3
MaxLimit == 2
MaxCalls == 4

Keys == 1..NumKeys
Limits == 1..MaxLimit

\* ------------------------------------------------------------- entries
\* A metaCacheEntry: its name, whether it is a directory, whether its
\* metadata decodes (xlmeta / fileInfo return no error), the modtime of its
\* latest version, its number of versions and the lifecycle action that
\* evalActionFromLifecycle computes for it.
Mk(n, d, k, m, v, a) ==
    [name |-> n, dir |-> d, ok |-> k, mod |-> m, nver |-> v, act |-> a]

NoEntry == Mk(0, FALSE, FALSE, 0, 0, "None")

DeleteActions == {"Delete", "DeleteVersion"}
RestoredActions == {"DeleteRestored", "DeleteRestoredVersion"}
Actions == {"None"} \cup DeleteActions \cup RestoredActions

\* The kinds of entries a set may hold in the listing sessions.
Flavours == {"old", "new", "many", "dir", "exp", "bad"}

EntryOf(n, f) ==
    CASE f = "old"  -> Mk(n, FALSE, TRUE, 1, 1, "None")
      [] f = "new"  -> Mk(n, FALSE, TRUE, 2, 1, "None")
      [] f = "many" -> Mk(n, FALSE, TRUE, 1, 2, "None")
      [] f = "dir"  -> Mk(n, TRUE, TRUE, 0, 0, "None")
      [] f = "exp"  -> Mk(n, FALSE, TRUE, 1, 1, "Delete")
      [] OTHER      -> Mk(n, FALSE, FALSE, 0, 0, "None")

\* ------------------------------------------------------------- sequences
RECURSIVE SeqOfSet(_)
\* The keys of a set in increasing order: a set's stream is strictly sorted.
SeqOfSet(S) ==
    IF S = {} THEN <<>>
    ELSE LET m == CHOOSE x \in S : \A y \in S : x <= y
         IN <<m>> \o SeqOfSet(S \ {m})

Names(s) == [i \in 1..Len(s) |-> s[i].name]
NameSet(s) == {s[i].name : i \in 1..Len(s)}
Take(s, n) == IF Len(s) <= n THEN s ELSE SubSeq(s, 1, n)
StrictlySorted(ns) == \A i \in 1..(Len(ns) - 1) : ns[i] < ns[i + 1]
IsPrefix(s, t) == Len(s) <= Len(t) /\ s = SubSeq(t, 1, Len(s))

\* ------------------------------------------------------------- resolver
\* !oMeta.latestModtime().Equal(oMeta.latestModtime()): the code compares
\* the other entry's modtime with itself.
ModtimeDiffers(existing, other) == ~(other.mod = other.mod)

\* The compareMeta closure that listMerged hands to mergeEntryChannels:
\* TRUE when other replaces existing.
Resolver(existing, other) ==
    IF existing.dir /\ ~other.dir THEN TRUE
    ELSE IF ~existing.dir /\ other.dir THEN FALSE
    ELSE IF ~existing.ok THEN TRUE
    ELSE IF ~other.ok THEN FALSE
    ELSE IF ModtimeDiffers(existing, other) THEN other.mod > existing.mod
    ELSE other.nver > existing.nver

\* ---------------------------------------------------------------- merge
\* mergeEntryChannels, the loop that picks the entry to send next: best is
\* top[bestIdx]; a later input with the same name is settled by the
\* resolver (the loser's input is advanced), one with a smaller name
\* becomes best.
RECURSIVE PickBest(_, _, _, _)
PickBest(ins, best, bestIdx, i) ==
    IF i > Len(ins) THEN [ins |-> ins, best |-> best, idx |-> bestIdx]
    ELSE IF ins[i] = <<>> THEN PickBest(ins, best, bestIdx, i + 1)
    ELSE LET other == Head(ins[i]) IN
         IF best = NoEntry THEN PickBest(ins, other, i, i + 1)
         ELSE IF best.name = other.name THEN
              IF Resolver(best, other)
              THEN PickBest([ins EXCEPT ![bestIdx] = Tail(@)], other, i, i + 1)
              ELSE PickBest([ins EXCEPT ![i] = Tail(@)], best, bestIdx, i + 1)
         ELSE IF best.name > other.name THEN PickBest(ins, other, i, i + 1)
         ELSE PickBest(ins, best, bestIdx, i + 1)

RECURSIVE MergeLoop(_, _, _)
MergeLoop(ins, last, out) ==
    IF \A i \in 1..Len(ins) : ins[i] = <<>> THEN out
    ELSE LET first == IF ins[1] = <<>> THEN NoEntry ELSE Head(ins[1])
             p == PickBest(ins, first, 1, 2)
             rest == [p.ins EXCEPT ![p.idx] = Tail(@)]
         IN IF p.best.name > last
            THEN MergeLoop(rest, p.best.name, Append(out, p.best))
            ELSE MergeLoop(rest, last, out)

\* mergeEntryChannels(ctx, in, out, compareMeta) run to the end of its
\* inputs: the sequence it sends on out.  One input is forwarded as it is.
MergeEntryChannels(ins) ==
    IF Len(ins) = 1 THEN ins[1] ELSE MergeLoop(ins, 0, <<>>)

RECURSIVE Concat(_)
Concat(ins) == IF ins = <<>> THEN <<>> ELSE Head(ins) \o Concat(Tail(ins))

\* --------------------------------------------------- bucket-action filter
\* What applyBucketActions does with one entry it received:
\*   "skip"     obj.fileInfo failed, the entry is dropped silently;
\*   "expire"   lifecycle says Delete / DeleteVersion: enqueue, drop;
\*   "restored" lifecycle says DeleteRestored(Version): enqueue, drop;
\*   "emit"     the entry goes to out.
BucketActionNoRestored(lc, e) ==
    IF ~e.ok THEN "skip"
    ELSE IF lc /\ e.act \in DeleteActions THEN "expire"
    ELSE "emit"

BucketAction(lc, e) ==
    IF ~e.ok THEN "skip"
    ELSE IF lc /\ e.act \in DeleteActions THEN "expire"
    ELSE IF lc /\ e.act \in RestoredActions THEN "restored"
    ELSE "emit"

RECURSIVE FilterSeq(_, _)
\* The entries applyBucketActions emits for an input stream it reads to the
\* end, in order.
FilterSeq(lc, s) ==
    IF s = <<>> THEN <<>>
    ELSE IF BucketAction(lc, Head(s)) = "emit"
         THEN <<Head(s)>> \o FilterSeq(lc, Tail(s))
         ELSE FilterSeq(lc, Tail(s))

\* ---------------------------------------------------------------- gather
RECURSIVE AfterMarker(_, _)
AfterMarker(s, marker) ==
    IF s = <<>> THEN <<>>
    ELSE IF Head(s).name > marker THEN <<Head(s)>> \o AfterMarker(Tail(s), marker)
    ELSE AfterMarker(Tail(s), marker)

\* o.gatherResults(ctx, in)(): the entries after the marker, at most Limit
\* of them; nil when one more entry arrived, io.EOF when the channel was
\* closed first, and nothing but ctx.Err() when the context is done.
GatherResults(o, stream, cancelled) ==
    IF cancelled THEN [entries |-> <<>>, err |-> "Canceled"]
    ELSE LET elig == AfterMarker(stream, o.Marker) IN
         [entries |-> Take(elig, o.Limit),
          err |-> IF Len(elig) > o.Limit THEN "nil" ELSE "EOF"]

\* ------------------------------------------------------------ listMerged
IsAllNotFound(errs) ==
    Len(errs) > 0 /\ \A i \in 1..Len(errs) : errs[i] = "NotFound"

\* erasureServerPools.listMerged, what it returns after the merge: the
\* merge's own error, the context's error, nil when every set reported
\* not-found, the first set error that is neither nil nor io.EOF, io.EOF
\* when every set ended with io.EOF, and nil otherwise.
ListMergedErrPools(errs, mergeErr, cancelled) ==
    IF mergeErr # "nil" THEN mergeErr
    ELSE IF cancelled THEN "Canceled"
    ELSE IF IsAllNotFound(errs) THEN "nil"
    ELSE LET bad == {i \in 1..Len(errs) : errs[i] \notin {"nil", "EOF"}} IN
         IF bad # {} THEN errs[CHOOSE i \in bad : \A j \in bad : i <= j]
         ELSE IF \A i \in 1..Len(errs) : errs[i] = "EOF" THEN "EOF"
         ELSE "nil"

\* erasureSingle.listMerged, what it returns after the merge.
ListMergedErrSingle(errs, mergeErr, cancelled) ==
    IF mergeErr # "nil" THEN mergeErr
    ELSE IF errs[1] # "nil" THEN
         IF cancelled THEN "nil"
         ELSE IF errs[1] = "EOF" THEN "nil"
         ELSE errs[1]
    ELSE IF cancelled THEN "Canceled"
    ELSE "nil"

ListMergedErr(impl, errs, mergeErr, cancelled) ==
    IF impl = "pools" THEN ListMergedErrPools(errs, mergeErr, cancelled)
    ELSE ListMergedErrSingle(errs, mergeErr, cancelled)

\* listMerged, the entries it sends on results when nothing interrupts it:
\* the per-set streams merged by mergeEntryChannels with the resolver,
\* through applyBucketActions when lifecycle or replication is configured.
ListMergedUnmerged(o, ins) ==
    IF o.Lifecycle \/ o.Replication
    THEN FilterSeq(o.Lifecycle, Concat(ins))
    ELSE Concat(ins)

ListMergedNoFilter(o, ins) == MergeEntryChannels(ins)

ListMerged(o, ins) ==
    IF o.Lifecycle \/ o.Replication
    THEN FilterSeq(o.Lifecycle, MergeEntryChannels(ins))
    ELSE MergeEntryChannels(ins)

\* ============================================================== listPath
VARIABLES
    cfg,      \* the deployment and the request: impl, store, flav, Limit, Transient, Lifecycle, Replication
    o,        \* the listPathOptions of the call in progress
    pc,       \* "idle" | "lookup" | "serve" | "raw" | "end"
    tr,       \* what the call in progress has done so far
    res,      \* what the last call returned: entries, err, listID
    got,      \* the names of all pages returned so far, concatenated
    calls,    \* the number of calls made
    clean     \* no call so far was disturbed: see Disturbed

varsLP == <<cfg, o, pc, tr, res, got, calls, clean>>

\* The resolver on its own (see Pick).
VARIABLES
    pk        \* the two entries of one name, and the merge's choice

varsPick == <<pk>>

\* applyBucketActions with its producer and its consumer (see NextABA).
VARIABLES
    acfg,     \* Lifecycle and Replication of the options
    aIn,      \* the channel in: its buffer, closed, how many entries were sent on it
    aOut,     \* the channel out: its buffer, how often it was closed, reading
    aCtx,     \* ctx.Done() is closed
    aPc,      \* "recv" | "send" | "heal" | "done"
    aObj,     \* the entry in hand
    aLog      \* received, sent, expiry jobs, heal checks, sends after close

varsABA == <<acfg, aIn, aOut, aCtx, aPc, aObj, aLog>>

\* listAndSave with its lister, its multiplexer, its saver and its client
\* (see NextLAS).
VARIABLES
    las       \* the channels, the goroutines' positions and the contexts

varsLAS == <<las>>

\* The goroutine that refreshes the handout time of an adopted cache (see
\* NextTick).
VARIABLES
    tk        \* the ticker, the goroutine, the request and the cache

varsTick == <<tk>>

\* Two listers and the cache manager of their bucket (see NextJoin).
VARIABLES
    jn        \* the manager's caches and the two calls

varsJoin == <<jn>>

\* The argument checks at the head of listPath (see NextArgs).
VARIABLES
    ar        \* the options given and what the call did

varsArgs == <<ar>>

\* The set planner of endpoint-ellipses.go (see NextPlan).
VARIABLES
    pl        \* the arguments' patterns and the plan

varsPlan == <<pl>>

\* The raw-list path as goroutines and channels (see NextRaw).
VARIABLES
    rw        \* the contexts, channels and goroutines of one raw listing

varsRaw == <<rw>>

\* BucketMetadataSys of bucket-metadata-sys.go (see NextMeta).
VARIABLES
    bm        \* the bucket metadata on disk and in memory, and the Update calls

varsMeta == <<bm>>

\* initFormatFS of format-fs.go (see NextFmt).
VARIABLES
    ff        \* format.json, its locks and the processes initialising the backend

varsFmt == <<ff>>

\* NATSTarget of nats.go (see NextNats).
VARIABLES
    nt        \* the queue store, the connection and what was published

varsNats == <<nt>>

\* healErasureSet (see NextHeal).
VARIABLES
    hl        \* the buckets, the tracker and the goroutines of one healErasureSet

varsHeal == <<hl>>

vars ==
    <<varsLP, varsPick, varsABA, varsLAS,
      varsTick, varsJoin, varsArgs, varsPlan,
      varsRaw, varsMeta, varsFmt, varsNats,
      varsHeal>>

\* What the actions of one part leave alone: the variables of the others.
restLP ==
    <<varsPick, varsABA, varsLAS, varsTick,
      varsJoin, varsArgs, varsPlan, varsRaw,
      varsMeta, varsFmt, varsNats, varsHeal>>
restPick ==
    <<varsLP, varsABA, varsLAS, varsTick,
      varsJoin, varsArgs, varsPlan, varsRaw,
      varsMeta, varsFmt, varsNats, varsHeal>>
restABA ==
    <<varsLP, varsPick, varsLAS, varsTick,
      varsJoin, varsArgs, varsPlan, varsRaw,
      varsMeta, varsFmt, varsNats, varsHeal>>
restLAS ==
    <<varsLP, varsPick, varsABA, varsTick,
      varsJoin, varsArgs, varsPlan, varsRaw,
      varsMeta, varsFmt, varsNats, varsHeal>>
restTick ==
    <<varsLP, varsPick, varsABA, varsLAS,
      varsJoin, varsArgs, varsPlan, varsRaw,
      varsMeta, varsFmt, varsNats, varsHeal>>
restJoin ==
    <<varsLP, varsPick, varsABA, varsLAS,
      varsTick, varsArgs, varsPlan, varsRaw,
      varsMeta, varsFmt, varsNats, varsHeal>>
restArgs ==
    <<varsLP, varsPick, varsABA, varsLAS,
      varsTick, varsJoin, varsPlan, varsRaw,
      varsMeta, varsFmt, varsNats, varsHeal>>
restPlan ==
    <<varsLP, varsPick, varsABA, varsLAS,
      varsTick, varsJoin, varsArgs, varsRaw,
      varsMeta, varsFmt, varsNats, varsHeal>>
restRaw ==
    <<varsLP, varsPick, varsABA, varsLAS,
      varsTick, varsJoin, varsArgs, varsPlan,
      varsMeta, varsFmt, varsNats, varsHeal>>
restMeta ==
    <<varsLP, varsPick, varsABA, varsLAS,
      varsTick, varsJoin, varsArgs, varsPlan,
      varsRaw, varsFmt, varsNats, varsHeal>>
restFmt ==
    <<varsLP, varsPick, varsABA, varsLAS,
      varsTick, varsJoin, varsArgs, varsPlan,
      varsRaw, varsMeta, varsNats, varsHeal>>
restNats ==
    <<varsLP, varsPick, varsABA, varsLAS,
      varsTick, varsJoin, varsArgs, varsPlan,
      varsRaw, varsMeta, varsFmt, varsHeal>>
restHeal ==
    <<varsLP, varsPick, varsABA, varsLAS,
      varsTick, varsJoin, varsArgs, varsPlan,
      varsRaw, varsMeta, varsFmt, varsNats>>

\* The parts of the state a specification leaves alone.
IdleLP ==
    /\ cfg = <<>> /\ o = <<>> /\ pc = "off" /\ tr = <<>> /\ res = <<>>
    /\ got = <<>> /\ calls = 0 /\ clean = TRUE

IdlePick == pk = <<>>

IdleABA ==
    /\ acfg = <<>> /\ aIn = <<>> /\ aOut = <<>> /\ aCtx = FALSE
    /\ aPc = "off" /\ aObj = NoEntry /\ aLog = <<>>

IdleLAS == las = <<>>

IdleTick == tk = <<>>

IdleJoin == jn = <<>>

IdleArgs == ar = <<>>

IdlePlan == pl = <<>>

IdleRaw == rw = <<>>

IdleMeta == bm = <<>>

IdleFmt == ff = <<>>

IdleNats == nt = <<>>

IdleHeal == hl = <<>>

IdleButLP ==
    /\ IdlePick /\ IdleABA /\ IdleLAS /\ IdleTick
    /\ IdleJoin /\ IdleArgs /\ IdlePlan /\ IdleRaw
    /\ IdleMeta /\ IdleFmt /\ IdleNats /\ IdleHeal
IdleButPick ==
    /\ IdleLP /\ IdleABA /\ IdleLAS /\ IdleTick
    /\ IdleJoin /\ IdleArgs /\ IdlePlan /\ IdleRaw
    /\ IdleMeta /\ IdleFmt /\ IdleNats /\ IdleHeal
IdleButABA ==
    /\ IdleLP /\ IdlePick /\ IdleLAS /\ IdleTick
    /\ IdleJoin /\ IdleArgs /\ IdlePlan /\ IdleRaw
    /\ IdleMeta /\ IdleFmt /\ IdleNats /\ IdleHeal
IdleButLAS ==
    /\ IdleLP /\ IdlePick /\ IdleABA /\ IdleTick
    /\ IdleJoin /\ IdleArgs /\ IdlePlan /\ IdleRaw
    /\ IdleMeta /\ IdleFmt /\ IdleNats /\ IdleHeal
IdleButTick ==
    /\ IdleLP /\ IdlePick /\ IdleABA /\ IdleLAS
    /\ IdleJoin /\ IdleArgs /\ IdlePlan /\ IdleRaw
    /\ IdleMeta /\ IdleFmt /\ IdleNats /\ IdleHeal
IdleButJoin ==
    /\ IdleLP /\ IdlePick /\ IdleABA /\ IdleLAS
    /\ IdleTick /\ IdleArgs /\ IdlePlan /\ IdleRaw
    /\ IdleMeta /\ IdleFmt /\ IdleNats /\ IdleHeal
IdleButArgs ==
    /\ IdleLP /\ IdlePick /\ IdleABA /\ IdleLAS
    /\ IdleTick /\ IdleJoin /\ IdlePlan /\ IdleRaw
    /\ IdleMeta /\ IdleFmt /\ IdleNats /\ IdleHeal
IdleButPlan ==
    /\ IdleLP /\ IdlePick /\ IdleABA /\ IdleLAS
    /\ IdleTick /\ IdleJoin /\ IdleArgs /\ IdleRaw
    /\ IdleMeta /\ IdleFmt /\ IdleNats /\ IdleHeal
IdleButRaw ==
    /\ IdleLP /\ IdlePick /\ IdleABA /\ IdleLAS
    /\ IdleTick /\ IdleJoin /\ IdleArgs /\ IdlePlan
    /\ IdleMeta /\ IdleFmt /\ IdleNats /\ IdleHeal
IdleButMeta ==
    /\ IdleLP /\ IdlePick /\ IdleABA /\ IdleLAS
    /\ IdleTick /\ IdleJoin /\ IdleArgs /\ IdlePlan
    /\ IdleRaw /\ IdleFmt /\ IdleNats /\ IdleHeal
IdleButFmt ==
    /\ IdleLP /\ IdlePick /\ IdleABA /\ IdleLAS
    /\ IdleTick /\ IdleJoin /\ IdleArgs /\ IdlePlan
    /\ IdleRaw /\ IdleMeta /\ IdleNats /\ IdleHeal
IdleButNats ==
    /\ IdleLP /\ IdlePick /\ IdleABA /\ IdleLAS
    /\ IdleTick /\ IdleJoin /\ IdleArgs /\ IdlePlan
    /\ IdleRaw /\ IdleMeta /\ IdleFmt /\ IdleHeal
IdleButHeal ==
    /\ IdleLP /\ IdlePick /\ IdleABA /\ IdleLAS
    /\ IdleTick /\ IdleJoin /\ IdleArgs /\ IdlePlan
    /\ IdleRaw /\ IdleMeta /\ IdleFmt /\ IdleNats

\* The server pools: the number of sets of each pool.
Topology == <<1, 1>>

RECURSIVE Sum(_)
Sum(s) == IF s = <<>> THEN 0 ELSE Head(s) + Sum(Tail(s))

NumInputs(impl) == IF impl = "pools" THEN Sum(Topology) ELSE 1

\* The kinds of entries the sets hold, with the bucket's configuration.
Scenario(f, lc, repl) == [flav |-> f, lc |-> lc, repl |-> repl]

Scenarios(impl) ==
    IF impl = "pools"
    THEN {Scenario(<<"old", "new">>, FALSE, FALSE),
          Scenario(<<"dir", "many">>, FALSE, FALSE),
          Scenario(<<"old", "exp">>, TRUE, FALSE),
          Scenario(<<"bad", "old">>, FALSE, TRUE)}
    ELSE {Scenario(<<"old">>, FALSE, FALSE),
          Scenario(<<"exp">>, TRUE, FALSE),
          Scenario(<<"bad">>, FALSE, TRUE)}

\* The stream of set i: its entries in name order.
SetStream(c, i) ==
    LET ks == SeqOfSet(c.store[i])
    IN [j \in 1..Len(ks) |-> EntryOf(ks[j], c.flav[i])]

\* What the sets send to listMerged: a set whose listing failed sends nothing.
Inputs(c, errs) ==
    [i \in 1..Len(c.store) |->
        IF errs[i] \in {"nil", "EOF"} THEN SetStream(c, i) ELSE <<>>]

NoErrs(c) == [i \in 1..Len(c.store) |-> "nil"]

\* The results of the per-set listers that the listing sessions draw from.
ErrKinds(c) ==
    {NoErrs(c),
     [i \in 1..Len(c.store) |-> "EOF"],
     [i \in 1..Len(c.store) |-> "NotFound"],
     [i \in 1..Len(c.store) |-> IF i = 1 THEN "Other" ELSE "nil"]}

\* What the sets hold: one set holds any keys; in a pair the second set
\* holds the same keys, the other keys, all keys or all keys but the first.
Stores(impl) ==
    IF impl = "pools"
    THEN UNION {{<<a, b>> : b \in {a, Keys \ a, Keys, Keys \ {1}}} :
                   a \in SUBSET Keys}
    ELSE {<<a>> : a \in SUBSET Keys}

NoTrace ==
    [look |-> "-", lerr |-> "-", cst |-> "-", fnf |-> FALSE, lid |-> "-",
     lcreate |-> FALSE, called |-> {},
     via |-> "-", serr |-> "-", listErr |-> "-", gerr |-> "-",
     cancelled |-> FALSE, errs |-> <<>>, marked |-> FALSE,
     tag |-> [ID |-> "", Create |-> FALSE, pool |-> 0, set |-> 0],
     started |-> FALSE, idx |-> <<>>]

NoResult == [entries |-> <<>>, err |-> "-", listID |-> ""]

InitLP ==
    /\ \E impl \in {"pools", "single"} :
       \E sc \in Scenarios(impl) :
       \E st \in Stores(impl) :
       \E lim \in Limits :
       \E t \in BOOLEAN :
          cfg = [impl |-> impl, store |-> st, flav |-> sc.flav, Limit |-> lim,
                 Transient |-> t, Lifecycle |-> sc.lc, Replication |-> sc.repl]
    /\ o = [Limit |-> cfg.Limit, Marker |-> 0, Transient |-> cfg.Transient,
            Create |-> FALSE, ID |-> "", pool |-> 0, set |-> 0,
            Lifecycle |-> cfg.Lifecycle, Replication |-> cfg.Replication]
    /\ pc = "idle"
    /\ tr = NoTrace
    /\ res = NoResult
    /\ got = <<>>
    /\ calls = 0
    /\ clean = TRUE

\* A call was disturbed when its context was cancelled, when a set did not
\* answer its lister, when the manager reported no files, when listMerged
\* returned an error or when the call returned an error other than io.EOF.
Disturbed(t, r) ==
    \/ t.cancelled
    \/ t.errs # <<>> /\ \E i \in 1..Len(t.errs) : t.errs[i] \notin {"nil", "EOF"}
    \/ t.lerr = "Canceled"
    \/ t.fnf
    \/ t.listErr \notin {"-", "nil", "Canceled"}
    \/ r.err \notin {"nil", "EOF"}

\* A call returns: the page is appended to what the client has, and the
\* client follows the marker while the listing is truncated (err = nil).
Return(r) ==
    /\ res' = r
    /\ got' = got \o Names(r.entries)
    /\ pc' = IF r.err = "nil" THEN "idle" ELSE "end"
    /\ clean' = (clean /\ ~Disturbed(tr', r))

\* The marker the client follows: the last name of the page it got.
NextMarker == IF res.entries = <<>> THEN o.Marker ELSE res.entries[Len(res.entries)].name

\* The list id, create flag, pool and set that parseMarker may find in a
\* marker: none, a request to create a cache, or a cache's id with the pool
\* and set that hold it.
MarkerTags ==
    {[ID |-> "", Create |-> FALSE, pool |-> 0, set |-> 0]} \cup
    {[ID |-> "m", Create |-> TRUE, pool |-> 0, set |-> 0]} \cup
    {[ID |-> "m", Create |-> FALSE, pool |-> ps[1], set |-> ps[2]] :
        ps \in {<<0, 0>>, <<Len(Topology), 0>>, <<0, 1>>}}

\* if o.ID != "" && !o.Transient: the cache manager is asked.
NeedsLookupWithID(opts) == opts.ID # ""

NeedsLookup(opts) == opts.ID # "" /\ ~opts.Transient

\* listPath up to the cache lookup: the options are normalised, the marker
\* is parsed and a transient listing never creates a cache.
Begin ==
    /\ pc = "idle"
    /\ calls < MaxCalls
    /\ \E t \in MarkerTags :
          /\ t.ID # "" => NextMarker > 0
          /\ o' = [o EXCEPT !.Marker = NextMarker, !.Transient = cfg.Transient,
                            !.ID = t.ID, !.pool = t.pool, !.set = t.set,
                            !.Create = IF cfg.Transient THEN FALSE ELSE t.Create]
    /\ calls' = calls + 1
    /\ tr' = [NoTrace EXCEPT !.tag = [ID |-> o'.ID, Create |-> o'.Create,
                                      pool |-> o'.pool, set |-> o'.set]]
    /\ pc' = IF NeedsLookup(o') THEN "lookup" ELSE "raw"
    /\ UNCHANGED <<cfg, res, got, clean, restLP>>

EmptyEOF == [entries |-> <<>>, err |-> "EOF", listID |-> ""]

\* What the lookup of the cache can answer: the error of the RPC (only
\* erasureServerPools asks a remote owner; the local manager always answers)
\* and the cache it found.
LookupAnswers(impl) ==
    {[lerr |-> "nil", cst |-> st, fnf |-> f] :
        st \in {"none", "started", "success", "error"}, f \in BOOLEAN}
    \cup (IF impl = "pools"
          THEN {[lerr |-> e, cst |-> "-", fnf |-> FALSE] : e \in {"Canceled", "Deadline", "Other"}}
          ELSE {})

\* Where listPath goes after the lookup block: erasureServerPools tests the
\* options again (o.ID != "" && !o.Transient), erasureSingle serves the id
\* inside the lookup block itself.
AfterLookup(impl, opts) ==
    IF impl = "pools"
    THEN (IF opts.ID # "" /\ ~opts.Transient THEN "serve" ELSE "raw")
    ELSE "serve"

\* The cache lookup of listPath with its outcome a: where the call goes next
\* ("ret": it returns an empty page with io.EOF) and with which options.
LookupStepStaysCached(impl, opts, a) ==
    IF a.lerr # "nil" THEN
         IF a.lerr = "Canceled" THEN [next |-> "ret", o |-> opts]
         ELSE LET o2 == [opts EXCEPT !.Create = FALSE, !.ID = "x"]
              IN [next |-> AfterLookup(impl, o2), o |-> o2]
    ELSE IF a.fnf THEN [next |-> "ret", o |-> opts]
    ELSE IF a.cst \in {"error", "none"} THEN
         LET o2 == [opts EXCEPT !.ID = "", !.Create = FALSE]
         IN [next |-> AfterLookup(impl, o2), o |-> o2]
    ELSE LET o2 == [opts EXCEPT !.ID = "c"]
         IN [next |-> AfterLookup(impl, o2), o |-> o2]

LookupStep(impl, opts, a) ==
    IF a.lerr # "nil" THEN
         IF a.lerr = "Canceled" THEN [next |-> "ret", o |-> opts]
         ELSE LET o2 == [opts EXCEPT !.Transient = TRUE, !.Create = FALSE, !.ID = "x"]
              IN [next |-> AfterLookup(impl, o2), o |-> o2]
    ELSE IF a.fnf THEN [next |-> "ret", o |-> opts]
    ELSE IF a.cst \in {"error", "none"} THEN
         LET o2 == [opts EXCEPT !.ID = "", !.Create = FALSE]
         IN [next |-> AfterLookup(impl, o2), o |-> o2]
    ELSE LET o2 == [opts EXCEPT !.ID = "c"]
         IN [next |-> AfterLookup(impl, o2), o |-> o2]

Lookup ==
    /\ pc = "lookup"
    /\ \E a \in LookupAnswers(cfg.impl) :
          LET l == LookupStep(cfg.impl, o, a) IN
          /\ tr' = [tr EXCEPT !.look = "asked", !.lerr = a.lerr, !.cst = a.cst,
                              !.fnf = a.fnf, !.lid = l.o.ID, !.lcreate = l.o.Create]
          /\ o' = l.o
          /\ IF l.next = "ret"
             THEN Return(EmptyEOF)
             ELSE pc' = l.next /\ UNCHANGED <<res, got, clean>>
    /\ UNCHANGED <<cfg, calls, restLP>>

\* o.pool < len(z.serverPools) && o.set < len(z.serverPools[o.pool].sets)
InRangeAlways(opts) == TRUE
InRange(opts) ==
    /\ opts.pool < Len(Topology)
    /\ opts.set < Topology[opts.pool + 1]

\* The saved listing a cache holds: the merged listing of all sets.
Cache(opts) == ListMerged(opts, Inputs(cfg, NoErrs(cfg)))

\* listAndSave: without space in any pool (erasureServerPools only) nothing
\* is started and the options are switched to transient; otherwise the page
\* is what gatherResults collects from the merged stream.
ListAndSaveStaysPersistent(impl, opts, noSpace, errs, cancelled) ==
    IF impl = "pools" /\ noSpace
    THEN [o |-> [opts EXCEPT !.pool = 0, !.Create = FALSE, !.ID = ""],
          entries |-> <<>>, err |-> "DiskFull", started |-> FALSE]
    ELSE LET o2 == [opts EXCEPT !.pool = 0, !.set = 0]
             g == GatherResults(o2, ListMerged(o2, Inputs(cfg, errs)), cancelled)
         IN [o |-> o2, entries |-> g.entries, err |-> g.err, started |-> TRUE]

ListAndSave(impl, opts, noSpace, errs, cancelled) ==
    IF impl = "pools" /\ noSpace
    THEN [o |-> [opts EXCEPT !.pool = 0, !.Create = FALSE, !.ID = "", !.Transient = TRUE],
          entries |-> <<>>, err |-> "DiskFull", started |-> FALSE]
    ELSE LET o2 == [opts EXCEPT !.pool = 0, !.set = 0]
             g == GatherResults(o2, ListMerged(o2, Inputs(cfg, errs)), cancelled)
         IN [o |-> o2, entries |-> g.entries, err |-> g.err, started |-> TRUE]

\* streamMetadataParts with outcome sres: a page of the saved listing, or an
\* error.  No cache has an empty id: opening it cannot succeed.
StreamOutcomes(opts) ==
    IF opts.ID = "" THEN {"Canceled", "Deadline", "Other"}
    ELSE {"ok", "Canceled", "Deadline", "Other"}

StreamMetadataParts(opts, sres) ==
    IF sres = "ok"
    THEN GatherResults(opts, Cache(opts), FALSE)
    ELSE [entries |-> <<>>, err |-> sres]

ExpectedErrs == {"nil", "Canceled", "Deadline", "EOF"}

\* listPath serving an existing list id: listAndSave when Create is set,
\* else streamMetadataParts (erasureServerPools: when pool and set exist).
\* r is what the callee answered.  next = "ret": the call returns
\* (entries, err); next = "raw": the page is dropped, the id cleared and the
\* call goes on to the raw listing.
ServeStep(impl, opts, r) ==
    IF opts.Create THEN
         IF r.err \in {"nil", "EOF"}
         THEN [next |-> "ret", o |-> r.o, entries |-> r.entries, err |-> r.err]
         ELSE IF r.err \in ExpectedErrs
         THEN [next |-> "ret", o |-> r.o, entries |-> <<>>, err |-> r.err]
         ELSE [next |-> "raw", o |-> [r.o EXCEPT !.ID = ""], entries |-> <<>>, err |-> r.err]
    ELSE IF impl = "pools" /\ ~InRange(opts)
         THEN [next |-> "raw", o |-> [opts EXCEPT !.pool = 0, !.set = 0, !.ID = ""],
               entries |-> <<>>, err |-> "Other"]
    ELSE IF r.err \in ExpectedErrs
         THEN [next |-> "ret", o |-> opts, entries |-> r.entries, err |-> r.err]
         ELSE [next |-> "raw", o |-> [opts EXCEPT !.ID = ""], entries |-> <<>>, err |-> r.err]

\* After an unexpected error of the serving: whether the cache ends up with
\* status = error.  erasureServerPools starts a goroutine that asks the
\* cache's owner over RPC, with the options it reads while listPath clears
\* o.ID: the cache is marked when there is a peer that owns it and both
\* calls succeed for the id, and not otherwise.  erasureSingle has no such
\* step.
MarkOutcomes(impl) == IF impl = "pools" THEN BOOLEAN ELSE {FALSE}

ServeDone(s, what, errs, cancelled, started) ==
    /\ \E m \in (IF s.next = "raw" THEN MarkOutcomes(cfg.impl) ELSE {FALSE}) :
          tr' = [tr EXCEPT !.called = IF what = "-" THEN @ ELSE @ \cup {what},
                           !.serr = s.err, !.errs = errs, !.cancelled = cancelled,
                           !.via = IF s.next = "ret" THEN what ELSE @,
                           !.marked = m, !.started = started,
                           !.idx = IF what = "stream" THEN <<o.pool, o.set>> ELSE @]
    /\ o' = s.o
    /\ IF s.next = "ret"
       THEN Return([entries |-> s.entries, err |-> s.err,
                    listID |-> IF what = "stream" THEN o.ID ELSE ""])
       ELSE pc' = "raw" /\ UNCHANGED <<res, got, clean>>

ServeSave ==
    /\ pc = "serve"
    /\ o.Create
    /\ \E noSpace \in (IF cfg.impl = "pools" THEN BOOLEAN ELSE {FALSE}) :
       \E errs \in (IF noSpace THEN {NoErrs(cfg)} ELSE ErrKinds(cfg)) :
       \E cancelled \in (IF noSpace THEN {FALSE} ELSE BOOLEAN) :
          LET r == ListAndSave(cfg.impl, o, noSpace, errs, cancelled)
          IN ServeDone(ServeStep(cfg.impl, o, r), "save", errs, cancelled, r.started)
    /\ UNCHANGED <<cfg, calls, restLP>>

ServeStream ==
    /\ pc = "serve"
    /\ ~o.Create
    /\ IF cfg.impl = "pools" /\ ~InRange(o)
       THEN ServeDone(ServeStep(cfg.impl, o, [entries |-> <<>>, err |-> "Other"]),
                      "-", <<>>, FALSE, FALSE)
       ELSE \E sres \in StreamOutcomes(o) :
               ServeDone(ServeStep(cfg.impl, o, StreamMetadataParts(o, sres)),
                         "stream", <<>>, FALSE, FALSE)
    /\ UNCHANGED <<cfg, calls, restLP>>

\* truncated := entries.len() > o.Limit || err == nil
TruncatedLenOnly(opts, g) == Len(g.entries) > opts.Limit

Truncated(opts, g) == Len(g.entries) > opts.Limit \/ g.err = "nil"

\* The list id listPath stamps on the page of a raw listing.
StampAlways(opts, truncated) ==
    IF truncated THEN (IF opts.ID = "" THEN "u" ELSE opts.ID) ELSE ""

Stamp(opts, truncated) ==
    IF ~opts.Transient /\ truncated
    THEN (IF opts.ID = "" THEN "u" ELSE opts.ID)
    ELSE ""

\* The end of the raw-list path: g is what filteredResults() returned and
\* listErr what listMerged returned.
RawReturn(opts, g, listErr) ==
    IF listErr # "nil" /\ listErr # "Canceled"
    THEN [entries |-> g.entries, err |-> listErr, listID |-> ""]
    ELSE LET truncated == Truncated(opts, g) IN
         [entries |-> Take(g.entries, opts.Limit),
          err |-> IF truncated THEN "nil" ELSE "EOF",
          listID |-> Stamp(opts, truncated)]

\* How the return of listMerged races with the cancelList() of listPath:
\* "done" it returned before any cancellation, "late" its merge had ended
\* when the context was cancelled, "cut" the merge itself was interrupted.
Races == {"done", "late", "cut"}

RaceErr(impl, errs, race) ==
    CASE race = "done" -> ListMergedErr(impl, errs, "nil", FALSE)
      [] race = "late" -> ListMergedErr(impl, errs, "nil", TRUE)
      [] OTHER         -> ListMergedErr(impl, errs, "Canceled", TRUE)

\* The raw-list path of listPath: listMerged feeds filterCh, gatherResults
\* collects the page, the listing is cancelled and awaited.
Raw ==
    /\ pc = "raw"
    /\ \E errs \in ErrKinds(cfg) :
       \E cancelled \in BOOLEAN :
       \E race \in (IF cancelled THEN {"late", "cut"} ELSE Races) :
          LET g == GatherResults(o, ListMerged(o, Inputs(cfg, errs)), cancelled)
              listErr == RaceErr(cfg.impl, errs, race)
          IN /\ tr' = [tr EXCEPT !.called = @ \cup {"raw"}, !.via = "raw",
                                 !.listErr = listErr, !.gerr = g.err,
                                 !.cancelled = cancelled, !.errs = errs]
             /\ Return(RawReturn(o, g, listErr))
    /\ UNCHANGED <<cfg, o, calls, restLP>>

NextLP == Begin \/ Lookup \/ ServeSave \/ ServeStream \/ Raw

Init == InitLP /\ IdleButLP

Next == NextLP

Spec == Init /\ [][Next]_vars

\* ======================================================= listPath claims
\* The last call has returned.
Returned == calls > 0 /\ pc \in {"idle", "end"}

\* The last call returned from the raw-list path.
RawListed == Returned /\ tr.via = "raw"

\* The merged listing of the last raw listing, and the last name the client
\* holds after the page.
LastListing == ListMerged(o, Inputs(cfg, tr.errs))
MoreRemain == \E i \in 1..Len(LastListing) : LastListing[i].name > NextMarker

C2_ListIDStamp ==
    RawListed => ((res.listID # "") <=> (res.err = "nil" /\ ~o.Transient))

C2_Witness ==
    /\ RawListed
    /\ res.listID = "u"
    /\ res.err = "nil"
    /\ ~o.Transient
    /\ o.Marker > 0

\* C3: the names of the pages of successive calls that follow the marker,
\* concatenated, are strictly increasing: no name comes twice, also when
\* several sets hold it.
C3_PagesStrictlySorted == StrictlySorted(got)

C3_Witness ==
    /\ pc = "end"
    /\ calls >= 2
    /\ cfg.impl = "pools"
    /\ cfg.store[1] \cap cfg.store[2] # {}
    /\ Len(got) = NumKeys

\* The entry that stands for name k after the sets' copies are resolved
\* pairwise in set order, and the names a complete listing holds.
RECURSIVE WinnerFrom(_, _, _)
WinnerFrom(k, i, best) ==
    IF i > Len(cfg.store) THEN best
    ELSE IF k \notin cfg.store[i] THEN WinnerFrom(k, i + 1, best)
    ELSE LET other == EntryOf(k, cfg.flav[i]) IN
         IF best = NoEntry THEN WinnerFrom(k, i + 1, other)
         ELSE IF Resolver(best, other) THEN WinnerFrom(k, i + 1, other)
         ELSE WinnerFrom(k, i + 1, best)

VisibleKeys == UNION {cfg.store[i] : i \in 1..Len(cfg.store)}

FilterDrops(k) ==
    /\ cfg.Lifecycle \/ cfg.Replication
    /\ BucketAction(cfg.Lifecycle, WinnerFrom(k, 1, NoEntry)) # "emit"

ExpectedKeys == {k \in VisibleKeys : ~FilterDrops(k)}

LookupFailed == Returned /\ tr.look = "asked" /\ tr.lerr # "nil"
LookupOK == Returned /\ tr.look = "asked" /\ tr.lerr = "nil"

\* The call was degraded to a transient raw listing.
Degraded ==
    /\ o.Transient
    /\ ~o.Create
    /\ tr.via = "raw"
    /\ tr.called = {"raw"}
    /\ res.listID = ""

\* C9 as the spec states it: any failure of the lookup, cancellation
\* included, degrades the call to a transient raw listing.
C9_AnyFailureDegrades == LookupFailed => Degraded

\* C9, amended: a lookup that fails with anything but context.Canceled
\* degrades the call to a transient raw listing (Transient set, Create
\* cleared, page from the raw-list path, no cache consulted or saved, no
\* list id); a lookup that fails with context.Canceled ends the call at
\* once with an empty page and io.EOF, and nothing is listed.
C9_FailureDegradesUnlessCanceled ==
    LookupFailed =>
        IF tr.lerr = "Canceled"
        THEN res = EmptyEOF /\ tr.called = {}
        ELSE Degraded

C9_Witness ==
    /\ LookupFailed
    /\ tr.lerr = "Deadline"
    /\ Degraded
    /\ res.err = "nil"
    /\ res.entries # <<>>

\* C10: after a successful lookup, fileNotFound ends the call with an empty
\* page and io.EOF; status none or error clears the list id and Create and
\* the call is served by the raw listing alone; status started or success
\* adopts the cache's id and serves by listAndSave when Create is set and by
\* streaming the saved cache otherwise.
C10_LookupOutcomes ==
    LookupOK =>
        IF tr.fnf THEN res = EmptyEOF /\ tr.called = {}
        ELSE IF tr.cst \in {"none", "error"}
        THEN tr.lid = "" /\ ~tr.lcreate /\ tr.called = {"raw"}
        ELSE /\ tr.lid = "c"
             /\ tr.lcreate => "save" \in tr.called
             /\ ~tr.lcreate => "stream" \in tr.called

\* A call was served from a cache and the serving failed with an error that
\* is not expected: the call went on to the raw listing.
ServeFailed ==
    Returned /\ tr.serr \notin ({"-"} \cup ExpectedErrs)

\* C13: a call that returns an error other than io.EOF returns no entries;
\* a call that returns nil or io.EOF returns a page of at most Limit entries.
C13_NoPartialPage ==
    Returned =>
        /\ res.err \notin {"nil", "EOF"} => res.entries = <<>>
        /\ res.err \in {"nil", "EOF"} => Len(res.entries) <= o.Limit

\* C14: when the serving of a cache fails with an unexpected error, the
\* cache is marked status = error, nothing of the failed serving is
\* returned, and the call is answered by the raw listing, whose result alone
\* is returned.
C14_ServeFailureMarksCache ==
    ServeFailed =>
        /\ tr.marked
        /\ tr.via = "raw" /\ "raw" \in tr.called

\* C16: a listing that is transient from the start (requested so, or on a
\* reserved or invalid bucket) has Create forced to false, never asks the
\* cache manager, never runs listAndSave nor reads a saved cache, and its
\* pages carry no list id.
C16_TransientNeverPersists ==
    (cfg.Transient /\ calls > 0) =>
        /\ o.Transient /\ ~o.Create
        /\ pc \notin {"lookup", "serve"}
        /\ tr.look = "-" /\ tr.called \subseteq {"raw"}
        /\ res.listID = ""

\* A transient listing whose marker carried a list id returned a truncated
\* page from the raw listing.
C16_Witness ==
    /\ cfg.Transient /\ Returned /\ o.ID = "m"
    /\ tr.via = "raw" /\ res.err = "nil" /\ res.entries # <<>>

\* Some set answered its lister and some set failed.
OneSetFailed ==
    /\ \E i \in 1..Len(tr.errs) : tr.errs[i] \in {"nil", "EOF"}
    /\ \E i \in 1..Len(tr.errs) : tr.errs[i] \notin {"nil", "EOF"}

\* C18: when one set's stream fails and another set responds, listMerged
\* succeeds and the raw listing returns a page of the responding sets'
\* entries without an error.
C18_OneSetFailureTolerated ==
    (RawListed /\ ~tr.cancelled /\ OneSetFailed) =>
        /\ tr.listErr \in {"nil", "EOF"}
        /\ res.err \in {"nil", "EOF"}

\* ================================================================== Pick
\* The resolver applied to the two entries that two inputs of the merge hold
\* under one name.
MaxMod == 2
MaxVer == 2

\* A directory carries no version metadata; an object has a latest modtime
\* and a number of versions; either may fail to decode.
PickEntries ==
    {Mk(1, TRUE, k, 0, 0, "None") : k \in BOOLEAN}
        \cup {Mk(1, FALSE, k, m, v, "None") :
                  k \in BOOLEAN, m \in 1..MaxMod, v \in 1..MaxVer}

InitPick ==
    /\ pk \in {[existing |-> e, other |-> x, state |-> "new",
                replace |-> FALSE, kept |-> <<>>] :
                   e \in PickEntries, x \in PickEntries}
    /\ IdleButPick

\* mergeEntryChannels meets the two entries and asks the resolver.
Pick ==
    /\ pk.state = "new"
    /\ pk' = [pk EXCEPT !.state = "picked",
                        !.replace = Resolver(pk.existing, pk.other),
                        !.kept = MergeEntryChannels(<< <<pk.existing>>,
                                                       <<pk.other>> >>)]
    /\ UNCHANGED <<restPick>>

NextPick == Pick

SpecPick == InitPick /\ [][NextPick]_vars

\* The entry the tie-break of the specification keeps.
Intended(existing, other) ==
    IF existing.dir # other.dir
    THEN (IF existing.dir THEN other ELSE existing)
    ELSE IF other.mod > existing.mod THEN other
    ELSE IF existing.mod > other.mod THEN existing
    ELSE IF other.nver > existing.nver THEN other
    ELSE existing

\* C5: of two entries with the same name whose metadata decodes, the merge
\* keeps exactly one: an object beats a directory; otherwise the strictly
\* newer latest modtime wins; otherwise the one with more versions; on a
\* full tie the entry seen first stays.
C5_PickTieBreak ==
    (pk.state = "picked" /\ pk.existing.ok /\ pk.other.ok) =>
        /\ pk.kept = <<Intended(pk.existing, pk.other)>>
        /\ pk.replace <=> (Intended(pk.existing, pk.other) # pk.existing)

\* ==================================================== applyBucketActions
\* The goroutine of applyBucketActions between the merge that feeds the
\* channel in and the caller that reads the channel out.
MaxIn == 2      \* entries the merge sends in one run
CapIn == 1      \* buffer of the channel in
CapOut == 1     \* buffer of the channel out

\* The entries the merge may send as its n-th: names increase.
AbaEntries(n) ==
    {Mk(n, FALSE, FALSE, 0, 0, "None")}
        \cup {Mk(n, FALSE, TRUE, 1, 1, a) : a \in Actions}

InitABA ==
    /\ acfg \in {[lc |-> l] : l \in BOOLEAN}
    /\ aIn = [buf |-> <<>>, closed |-> FALSE, n |-> 0]
    /\ aOut = [buf |-> <<>>, closed |-> 0, reading |-> TRUE]
    /\ aCtx = FALSE
    /\ aPc = "recv"
    /\ aObj = NoEntry
    /\ aLog = [recv |-> <<>>, sent |-> <<>>, exp |-> <<>>, heal |-> <<>>]
    /\ IdleButABA

\* mergeEntryChannels sends one more entry on in.
Produce ==
    /\ aPc # "off" /\ ~aIn.closed /\ aIn.n < MaxIn /\ Len(aIn.buf) < CapIn
    /\ \E e \in AbaEntries(aIn.n + 1) :
           aIn' = [aIn EXCEPT !.buf = Append(@, e), !.n = @ + 1]
    /\ UNCHANGED <<acfg, aOut, aCtx, aPc, aObj, aLog, restABA>>

\* mergeEntryChannels returns and listMerged's caller closes in: at the end
\* of the inputs or earlier, on an error or a cancelled context.
CloseIn ==
    /\ aPc # "off" /\ ~aIn.closed
    /\ aIn' = [aIn EXCEPT !.closed = TRUE]
    /\ UNCHANGED <<acfg, aOut, aCtx, aPc, aObj, aLog, restABA>>

\* The request's context is cancelled while the caller still reads.
Cancel ==
    /\ aPc # "off" /\ ~aCtx /\ aOut.reading
    /\ aCtx' = TRUE
    /\ UNCHANGED <<acfg, aIn, aOut, aPc, aObj, aLog, restABA>>

\* The caller reads one entry from out.
Consume ==
    /\ aOut.reading /\ aOut.buf # <<>>
    /\ aOut' = [aOut EXCEPT !.buf = Tail(@)]
    /\ UNCHANGED <<acfg, aIn, aCtx, aPc, aObj, aLog, restABA>>

\* The caller has its page and reads no more.
StopReading ==
    /\ aPc # "off" /\ aOut.reading
    /\ aOut' = [aOut EXCEPT !.reading = FALSE]
    /\ UNCHANGED <<acfg, aIn, aCtx, aPc, aObj, aLog, restABA>>

\* listPath: entries, err = filteredResults(); cancelList().
CancelList ==
    /\ aPc # "off" /\ ~aOut.reading /\ ~aCtx
    /\ aCtx' = TRUE
    /\ UNCHANGED <<acfg, aIn, aOut, aPc, aObj, aLog, restABA>>

\* globalExpiryState.enqueueByDays(objInfo, restored, versioned action).
EnqueueByDays(e, ba) ==
    [name |-> e.name,
     restored |-> (ba = "restored"),
     version |-> (e.act = (IF ba = "restored" THEN "DeleteRestoredVersion"
                           ELSE "DeleteVersion"))]

\* defer close(out).
CloseOut(out) == [out EXCEPT !.closed = @ + 1]

\* First select, case obj, ok = <-in with ok: decode, evaluate lifecycle,
\* enqueue and continue, or go on to the send.
Recv ==
    /\ aPc = "recv" /\ aIn.buf # <<>>
    /\ LET e == Head(aIn.buf)
           ba == BucketAction(acfg.lc, e)
       IN /\ aIn' = [aIn EXCEPT !.buf = Tail(@)]
          /\ aLog' = [aLog EXCEPT
                 !.recv = Append(@, e),
                 !.exp = IF ba \in {"expire", "restored"}
                         THEN Append(@, EnqueueByDays(e, ba)) ELSE @]
          /\ aPc' = IF ba = "emit" THEN "send" ELSE "recv"
          /\ aObj' = IF ba = "emit" THEN e ELSE NoEntry
    /\ UNCHANGED <<acfg, aOut, aCtx, restABA>>

\* First select, case obj, ok = <-in with !ok.
RecvClosed ==
    /\ aPc = "recv" /\ aIn.buf = <<>> /\ aIn.closed
    /\ aPc' = "done"
    /\ aOut' = CloseOut(aOut)
    /\ UNCHANGED <<acfg, aIn, aCtx, aObj, aLog, restABA>>

\* First select, case <-ctx.Done().
RecvCancel ==
    /\ aPc = "recv" /\ aCtx
    /\ aPc' = "done"
    /\ aOut' = CloseOut(aOut)
    /\ UNCHANGED <<acfg, aIn, aCtx, aObj, aLog, restABA>>

\* The cases of the second select.
SendCasesNoDone == {"out"}

SendCases == {"out", "done"}

\* The branches of the second select that queue the replication heal.
HealsAlways(branch) == TRUE

HealsAfter(branch) == branch = "out"

\* Second select, case out <- obj.
Send ==
    /\ aPc = "send" /\ "out" \in SendCases
    /\ aOut.closed = 0 /\ Len(aOut.buf) < CapOut
    /\ aOut' = [aOut EXCEPT !.buf = Append(@, aObj)]
    /\ aLog' = [aLog EXCEPT !.sent = Append(@, aObj)]
    /\ aPc' = IF HealsAfter("out") THEN "heal" ELSE "recv"
    /\ UNCHANGED <<acfg, aIn, aCtx, aObj, restABA>>

\* Second select, case <-ctx.Done(): the entry in hand is not delivered.
SendCancel ==
    /\ aPc = "send" /\ "done" \in SendCases /\ aCtx
    /\ aPc' = "done"
    /\ aOut' = CloseOut(aOut)
    /\ aLog' = IF HealsAfter("done")
               THEN [aLog EXCEPT !.heal = Append(@, aObj.name)] ELSE aLog
    /\ UNCHANGED <<acfg, aIn, aCtx, aObj, restABA>>

\* queueReplicationHeal(ctx, o.Bucket, objInfo, o.Replication).
Heal ==
    /\ aPc = "heal"
    /\ aLog' = [aLog EXCEPT !.heal = Append(@, aObj.name)]
    /\ aPc' = "recv"
    /\ aObj' = NoEntry
    /\ UNCHANGED <<acfg, aIn, aOut, aCtx, restABA>>

ABAStep == Recv \/ RecvClosed \/ RecvCancel \/ Send \/ SendCancel \/ Heal

NextABA ==
    \/ Produce \/ CloseIn \/ Cancel \/ Consume \/ StopReading \/ CancelList
    \/ Recv \/ RecvClosed \/ RecvCancel \/ Send \/ SendCancel \/ Heal

\* The goroutine runs, the caller reads while it wants entries, and listPath
\* cancels the listing context once its page is gathered.
SpecABA ==
    /\ InitABA /\ [][NextABA]_vars
    /\ WF_vars(ABAStep) /\ WF_vars(Consume) /\ WF_vars(CancelList)

\* ============================================== applyBucketActions claims
\* The lifecycle action of a received entry asks for its expiry.
Expires(e) == acfg.lc /\ e.ok /\ e.act \in (DeleteActions \cup RestoredActions)

\* The received entries that are neither undecodable nor expired, in order.
PassThrough(s) == SelectSeq(s, LAMBDA e : e.ok /\ ~Expires(e))

\* The expiry jobs enqueued for one entry.
JobsOf(e) == {j \in 1..Len(aLog.exp) : aLog.exp[j].name = e.name}

Running == aPc \in {"recv", "send", "heal", "done"}

\* The entry in hand at the second select, or abandoned there.
InHand == IF aObj # NoEntry /\ aPc \in {"send", "done"} THEN <<aObj>> ELSE <<>>

\* C6: an entry whose lifecycle action is Delete, DeleteVersion,
\* DeleteRestored or DeleteRestoredVersion is never emitted and has exactly
\* one expiry job, a restore-expiry job for the two restored actions; no
\* other entry has a job; the entries sent on out are the other decodable
\* entries, unchanged and in input order, up to the one in hand; when the
\* function ends because in was closed, all of them were sent.
C6_LifecycleFilter ==
    Running =>
        /\ \A i \in 1..Len(aLog.recv) :
               LET e == aLog.recv[i]
               IN IF Expires(e)
                  THEN /\ \A k \in 1..Len(aLog.sent) : aLog.sent[k].name # e.name
                       /\ Cardinality(JobsOf(e)) = 1
                       /\ \A j \in JobsOf(e) :
                              /\ aLog.exp[j].restored = (e.act \in RestoredActions)
                              /\ aLog.exp[j].version =
                                     (e.act \in {"DeleteVersion",
                                                 "DeleteRestoredVersion"})
                  ELSE JobsOf(e) = {}
        /\ aLog.sent \o InHand = PassThrough(aLog.recv)
        /\ (aPc = "done" /\ ~aCtx) => aLog.sent = PassThrough(aLog.recv)

\* A run that ended on the close of in with a restore-expiry job enqueued
\* for one entry and another entry emitted.
C6_Witness ==
    /\ aPc = "done" /\ ~aCtx /\ acfg.lc
    /\ Len(aLog.recv) = MaxIn
    /\ \E j \in 1..Len(aLog.exp) : aLog.exp[j].restored
    /\ \E i \in 1..Len(aLog.recv) : ~Expires(aLog.recv[i]) /\ aLog.recv[i].ok
    /\ Len(aLog.sent) >= 1

\* C7: the replication-heal checks queued are, in order, for the entries
\* already handed to out, one each: the check of an entry is queued in the
\* step after its send and before the next receive; an entry that lifecycle
\* dropped, or that was in hand when the context was cancelled, has none.
C7_HealAfterSend ==
    Running =>
        /\ IsPrefix(aLog.heal, Names(aLog.sent))
        /\ aPc = "heal" => Len(aLog.heal) = Len(aLog.sent) - 1
        /\ aPc # "heal" => aLog.heal = Names(aLog.sent)

\* The context was cancelled with an entry in hand, after another entry was
\* sent and its heal check queued.
C7_Witness ==
    /\ aPc = "done" /\ aCtx /\ aObj # NoEntry
    /\ Len(aLog.heal) >= 1

\* out is closed once, on return, and nothing is sent on it afterwards.
ClosedOnce ==
    /\ aOut.closed <= 1
    /\ (aOut.closed = 1) <=> (aPc = "done")

\* C8: out is closed exactly once, when the function returns, and nothing
\* is sent on out after that; once the context is cancelled the function
\* returns, also when it is blocked on the send to a full out; once in is
\* closed the function returns.
C8_ClosesOnceAndTerminates ==
    /\ [](Running => ClosedOnce)
    /\ [][aOut.closed = 1 => aLog'.sent = aLog.sent /\ aOut'.closed = 1]_vars
    /\ (Running /\ aCtx) ~> (aPc = "done")
    /\ (Running /\ aIn.closed) ~> (aPc = "done")

\* The function returned from the send with out full, nobody reading and in
\* closed.
C8_Witness ==
    /\ aPc = "done" /\ aObj # NoEntry /\ aIn.closed /\ aCtx
    /\ ~aOut.reading /\ Len(aOut.buf) = CapOut /\ aOut.closed = 1

\* ============================================================ listAndSave
\* listAndSave after the saver was chosen: the lister (listMerged on listCtx)
\* sends the stream 1..n on inCh, the multiplexer copies it to outCh and
\* saveCh, the saver (saveMetaCacheStream on listCtx) reads saveCh, and the
\* gatherer reads outCh for the caller, which waits on ctx.
MaxStream == 3  \* entries of the merged stream
CapLas == 1     \* buffer of inCh and of saveCh

SeqTo(k) == [i \in 1..k |-> i]

InitLAS ==
    /\ las \in {[n |-> n, Limit |-> lim,
                 inBuf |-> <<>>, inClosed |-> FALSE, produced |-> 0,
                 outBuf |-> <<>>, outClosed |-> 0,
                 saveBuf |-> <<>>, saveClosed |-> 0,
                 mux |-> "recv", entry |-> 0, returned |-> FALSE,
                 funcReturned |-> FALSE, ret |-> "", page |-> <<>>,
                 gGot |-> <<>>, gRes |-> "no",
                 sv |-> "run", saved |-> <<>>,
                 ctx |-> FALSE, lctx |-> FALSE,
                 read |-> <<>>, sentSave |-> <<>>, sentOut |-> <<>>] :
                    n \in 0..MaxStream, lim \in Limits}
    /\ IdleButLAS

LasOn == las # <<>>

\* listMerged sends the next entry of the stream on inCh.
LProduce ==
    /\ LasOn /\ ~las.inClosed /\ las.produced < las.n
    /\ Len(las.inBuf) < CapLas
    /\ las' = [las EXCEPT !.inBuf = Append(@, las.produced + 1),
                          !.produced = @ + 1]
    /\ UNCHANGED restLAS

\* listMerged returns: the stream ended, listCtx was cancelled or the
\* listing failed; inCh is closed.
LClose ==
    /\ LasOn /\ ~las.inClosed
    /\ las' = [las EXCEPT !.inClosed = TRUE]
    /\ UNCHANGED restLAS

\* The request's context is cancelled.
CancelCtx ==
    /\ LasOn /\ ~las.ctx
    /\ las' = [las EXCEPT !.ctx = TRUE]
    /\ UNCHANGED restLAS

\* meta.cancel: the cache's owner cancels the listing.
MetaCancel ==
    /\ LasOn /\ ~las.lctx
    /\ las' = [las EXCEPT !.lctx = TRUE]
    /\ UNCHANGED restLAS

\* The multiplexer, for entry := range inCh: the next entry.
MuxRecv ==
    /\ LasOn /\ las.mux = "recv" /\ las.inBuf # <<>>
    /\ las' = [las EXCEPT !.inBuf = Tail(@),
                          !.entry = Head(las.inBuf),
                          !.read = Append(@, Head(las.inBuf)),
                          !.mux = IF las.returned THEN "save" ELSE "flag"]
    /\ UNCHANGED restLAS

\* returned = funcReturned, under funcReturnedMu.
MuxFlag ==
    /\ LasOn /\ las.mux = "flag"
    /\ las' = [las EXCEPT !.returned = las.funcReturned, !.mux = "out"]
    /\ UNCHANGED restLAS

\* outCh <- entry; if returned { close(outCh) }.
MuxOut ==
    /\ LasOn /\ las.mux = "out" /\ Len(las.outBuf) < las.Limit
    /\ las' = [las EXCEPT !.outBuf = Append(@, las.entry),
                          !.sentOut = Append(@, las.entry),
                          !.outClosed = IF las.returned THEN @ + 1 ELSE @,
                          !.mux = "save"]
    /\ UNCHANGED restLAS

\* Whether the entry in hand goes to saveCh.
SavesUntilReturned(returned) == ~returned

SavesWhen(returned) == TRUE

\* entry.reusable = returned; saveCh <- entry.
MuxSave ==
    /\ LasOn /\ las.mux = "save"
    /\ IF SavesWhen(las.returned)
       THEN /\ Len(las.saveBuf) < CapLas
            /\ las' = [las EXCEPT !.saveBuf = Append(@, las.entry),
                                  !.sentSave = Append(@, las.entry),
                                  !.entry = 0, !.mux = "recv"]
       ELSE las' = [las EXCEPT !.entry = 0, !.mux = "recv"]
    /\ UNCHANGED restLAS

\* if !returned { close(outCh) } after the loop.
ClosesOutAtEndAlways(returned) == TRUE
ClosesOutAtEnd(returned) == ~returned

\* inCh is closed and empty: if !returned { close(outCh) }; close(saveCh).
MuxEnd ==
    /\ LasOn /\ las.mux = "recv" /\ las.inBuf = <<>> /\ las.inClosed
    /\ las' = [las EXCEPT !.outClosed = IF ClosesOutAtEnd(las.returned)
                                        THEN @ + 1 ELSE @,
                          !.saveClosed = @ + 1,
                          !.mux = "done"]
    /\ UNCHANGED restLAS

\* The gatherer takes an entry from outCh: it keeps the first Limit entries,
\* hands the page over with nil when one more arrives, and drops what comes
\* after the page was handed over or the caller has gone.
GatherRecv ==
    /\ LasOn /\ las.outBuf # <<>>
    /\ las' = [las EXCEPT
          !.outBuf = Tail(@),
          !.gGot = IF las.gRes = "no" /\ las.ret = "" /\ Len(@) < las.Limit
                   THEN Append(@, Head(las.outBuf)) ELSE @,
          !.gRes = IF las.gRes = "no" /\ las.ret = "" /\ Len(las.gGot) >= las.Limit
                   THEN "nil" ELSE @]
    /\ UNCHANGED restLAS

\* outCh is closed and empty: the page is handed over with io.EOF.
GatherEnd ==
    /\ LasOn /\ las.outBuf = <<>> /\ las.outClosed > 0
    /\ las.gRes = "no" /\ las.ret = ""
    /\ las' = [las EXCEPT !.gRes = "EOF"]
    /\ UNCHANGED restLAS

\* return filteredResults() with the page; the deferred funcReturned = true.
ReturnPage ==
    /\ LasOn /\ las.ret = "" /\ las.gRes # "no"
    /\ las' = [las EXCEPT !.ret = las.gRes, !.page = las.gGot,
                          !.funcReturned = TRUE]
    /\ UNCHANGED restLAS

\* return filteredResults() on ctx.Done(): no entries, ctx.Err().
ReturnCtx ==
    /\ LasOn /\ las.ret = "" /\ las.ctx
    /\ las' = [las EXCEPT !.ret = "Canceled", !.page = <<>>,
                          !.funcReturned = TRUE]
    /\ UNCHANGED restLAS

\* saveMetaCacheStream takes an entry from saveCh into the cache.
SaveRecv ==
    /\ LasOn /\ las.sv = "run" /\ las.saveBuf # <<>>
    /\ las' = [las EXCEPT !.saveBuf = Tail(@),
                          !.saved = Append(@, Head(las.saveBuf))]
    /\ UNCHANGED restLAS

\* saveCh is closed and empty: saveMetaCacheStream returns nil; cancel().
SaveEnd ==
    /\ LasOn /\ las.sv = "run" /\ las.saveBuf = <<>> /\ las.saveClosed > 0
    /\ las' = [las EXCEPT !.sv = "success", !.lctx = TRUE]
    /\ UNCHANGED restLAS

\* saveMetaCacheStream returns an error: meta.setErr; cancel().
SaveFail ==
    /\ LasOn /\ las.sv = "run"
    /\ las' = [las EXCEPT !.sv = "error", !.lctx = TRUE]
    /\ UNCHANGED restLAS

ListerStep == LProduce \/ LClose
MuxStep == MuxRecv \/ MuxFlag \/ MuxOut \/ MuxSave \/ MuxEnd
GatherStep == GatherRecv \/ GatherEnd
CallerStep == ReturnPage \/ ReturnCtx
SaverStep == SaveRecv \/ SaveEnd

NextLAS ==
    \/ LProduce \/ LClose \/ CancelCtx \/ MetaCancel
    \/ MuxRecv \/ MuxFlag \/ MuxOut \/ MuxSave \/ MuxEnd
    \/ GatherRecv \/ GatherEnd \/ ReturnPage \/ ReturnCtx
    \/ SaveRecv \/ SaveEnd \/ SaveFail

\* Every goroutine that can take a step eventually takes one.
SpecLAS ==
    /\ InitLAS /\ [][NextLAS]_vars
    /\ WF_vars(ListerStep) /\ WF_vars(MuxStep) /\ WF_vars(GatherStep)
    /\ WF_vars(CallerStep) /\ WF_vars(SaverStep)

\* ===================================================== listAndSave claims
\* The entry the multiplexer holds and has not yet sent to saveCh.
LasInHand == IF las.mux \in {"flag", "out", "save"} THEN <<las.entry>> ELSE <<>>

\* The caller of listAndSave has its answer.
LasReturned == LasOn /\ las.ret # ""

\* The multiplexer has ended with all the lister sent forwarded to saveCh.
LasForwardedAll ==
    /\ las.mux = "done" /\ las.inClosed /\ las.saveClosed = 1
    /\ las.sentSave = SeqTo(las.produced)

\* What was sent to saveCh is what was read from inCh, once each and in
\* order, up to the entry in hand, before and after the return of the call;
\* a cache that is finished holds all of it.
LasForwardsOnce ==
    /\ las.read = SeqTo(Len(las.read))
    /\ las.sentSave \o LasInHand = las.read
    /\ las.saved \o las.saveBuf = las.sentSave
    /\ las.sv = "success" => las.saved = SeqTo(las.produced)

\* C11: every entry the multiplexer reads from the merged stream goes to
\* saveCh exactly once and in stream order, whether or not listAndSave has
\* returned; once it has returned the multiplexer goes on until the stream
\* ends and all of it is forwarded, and the saver that reads it to the end
\* holds the whole stream (unless the saver itself fails).
C11_SaverGetsWholeStream ==
    /\ [](LasOn => LasForwardsOnce)
    /\ LasReturned ~> (LasForwardedAll \/ las.sv = "error")
    /\ (LasReturned /\ las.sv # "error") ~> (las.sv \in {"success", "error"})

\* The call returned a truncated page and the saver then received the whole
\* stream, longer than the page.
C11_Witness ==
    /\ LasOn /\ las.ret = "nil" /\ las.sv = "success"
    /\ las.produced = MaxStream /\ las.saved = SeqTo(MaxStream)
    /\ Len(las.page) < Len(las.saved)

\* C31: outCh and saveCh are never closed twice, nothing is sent on outCh
\* once it is closed, saveCh is closed only when inCh is closed and all
\* that was read from it has been sent to saveCh, and when the forwarding
\* goroutine has ended each of the two is closed exactly once.
C31_ChannelsClosedOnce ==
    /\ [](LasOn => las.outClosed <= 1 /\ las.saveClosed <= 1)
    /\ [][las.outClosed >= 1 => las'.sentOut = las.sentOut]_vars
    /\ [](las.saveClosed >= 1 =>
             /\ las.inClosed /\ las.inBuf = <<>> /\ las.entry = 0
             /\ las.read = SeqTo(las.produced) /\ las.sentSave = las.read)
    /\ [](las.mux = "done" => las.outClosed = 1 /\ las.saveClosed = 1)

\* The call returned while the goroutine went on: outCh was closed inside
\* the loop, later entries went to saveCh only, and the goroutine ended.
C31_Witness ==
    /\ LasOn /\ las.mux = "done" /\ las.returned
    /\ las.outClosed = 1 /\ las.saveClosed = 1
    /\ Len(las.sentOut) < Len(las.sentSave)

\* C32: once the merged stream has ended (inCh is closed) the forwarding
\* goroutine eventually ends with outCh and saveCh closed, also when the
\* saver has stopped reading.
C32_ForwarderTerminates ==
    (LasOn /\ las.inClosed) ~>
        (las.mux = "done" /\ las.outClosed = 1 /\ las.saveClosed = 1)

\* C12: a call that returned because its context was cancelled has torn the
\* lister and the saver down (their context listCtx is cancelled), while
\* after a call that returned a page they run on until the saver ends.
C12_CancelTearsDown ==
    LasOn =>
        /\ las.ret = "Canceled" => las.lctx
        /\ (las.ret \in {"nil", "EOF"} /\ las.sv = "success")
               => las.saved = SeqTo(las.produced)

\* ========================================================= handout ticker
\* The goroutine listPath starts when it adopts a cache with status started
\* or success: a ticker of period metacacheMaxClientWait/10 and one select
\* on ctx.Done() and the ticker's channel.  Time is counted in periods.
MaxTicks == 4   \* periods the request may run

\* restClientFromHash: the peer that owns the listing, or nil when this
\* node owns it; erasureSingle has no peers.
OwnerClients(impl) == IF impl = "pools" THEN {"nil", "peer"} ELSE {"nil"}

InitTick ==
    /\ tk \in UNION {{[impl |-> impl, rpc |-> rpc, status |-> st,
                        adopted |-> t0,
                        now |-> t0, ticks |-> 0, pending |-> FALSE,
                        stopped |-> FALSE,
                        g |-> "select", ctx |-> FALSE, refreshes |-> 0,
                        lastHandout |-> t0, updates |-> <<>>] :
                           rpc \in OwnerClients(impl),
                           st \in {"started", "success"}, t0 \in 0..1} :
                      impl \in {"pools", "single"}}
    /\ IdleButTick

TickOn == tk # <<>>

\* One period passes while the request runs: the ticker, unless stopped,
\* puts a tick in its channel, which holds one.
Tick ==
    /\ TickOn /\ ~tk.ctx /\ tk.ticks < MaxTicks
    /\ tk' = [tk EXCEPT !.now = @ + 1, !.ticks = @ + 1,
                        !.pending = @ \/ ~tk.stopped]
    /\ UNCHANGED restTick

\* The request's context is done.
TickCtxDone ==
    /\ TickOn /\ ~tk.ctx
    /\ tk' = [tk EXCEPT !.ctx = TRUE]
    /\ UNCHANGED restTick

\* Where the goroutine goes after the case <-t.C of its select.
AfterTick == "exit"

\* The calls that carry the refreshed entry, in order: in the pools
\* updateCacheEntry of the local manager when rpc is nil, and then
\* rpc.UpdateMetacacheListing on rpc whatever it is; in erasureSingle
\* updateCacheEntry alone.
UpdateCalls(impl, rpc) ==
    IF impl = "single" THEN <<"local">>
    ELSE (IF rpc = "nil" THEN <<"local">> ELSE <<>>) \o <<rpc>>

\* case <-t.C: meta.lastHandout = time.Now(); the cache entry is updated.
TickRefresh ==
    /\ TickOn /\ tk.g = "select" /\ tk.pending
    /\ tk' = [tk EXCEPT !.pending = FALSE, !.lastHandout = tk.now,
                        !.updates = @ \o UpdateCalls(tk.impl, tk.rpc),
                        !.refreshes = @ + 1, !.g = AfterTick,
                        !.stopped = (AfterTick = "exit")]
    /\ UNCHANGED restTick

\* case <-ctx.Done(): return; the deferred t.Stop().
TickStop ==
    /\ TickOn /\ tk.g = "select" /\ tk.ctx
    /\ tk' = [tk EXCEPT !.g = "exit", !.stopped = TRUE]
    /\ UNCHANGED restTick

NextTick == Tick \/ TickCtxDone \/ TickRefresh \/ TickStop

SpecTick == InitTick /\ [][NextTick]_vars /\ WF_vars(TickRefresh \/ TickStop)

\* C15: while the request runs, every tick of the period refreshes the
\* adopted cache's lastHandout: whenever no tick is waiting to be taken,
\* lastHandout is the time of the last tick; once the request's context is
\* done and the goroutine has seen it, the ticker is stopped.
C15_RefreshEveryTick ==
    TickOn =>
        /\ (~tk.ctx /\ ~tk.pending) => tk.lastHandout = tk.now
        /\ (tk.ctx /\ tk.g = "exit") => tk.stopped

\* C33: with no remote owner (rpc is nil) the refresh goes to the local
\* manager only: no method is called on the nil client.
C33_NilClientNeverCalled ==
    (TickOn /\ tk.impl = "pools" /\ tk.rpc = "nil") =>
        \A i \in 1..Len(tk.updates) : tk.updates[i] = "local"

\* ---------------------------------------------------------------------
\* The set planner: getSetIndexes and what it calls.
\* ---------------------------------------------------------------------

\* Bounds of the planner's inputs: the patterns of all arguments together,
\* the length of one pattern's expansion, the length of a lone pattern or
\* the number of arguments given without ellipses, and the override.
MaxPatterns == 3
MaxPat == 4
MaxOne == 17
MaxCustom == 8

\* var setSizes = []uint64{2, 3, ..., 16}
MinSetSize == 2
MaxSetSize == 16
setSizes == [i \in 1..(MaxSetSize - MinSetSize + 1) |-> i + MinSetSize - 1]

\* The argument patterns of a call: nil, or one sequence of pattern
\* lengths (len(p.Seq)) for every argument.
NilPatterns == [nil |-> TRUE, pats |-> <<>>]
Patterns(pats) == [nil |-> FALSE, pats |-> pats]

RECURSIVE Product(_)
Product(ns) == IF ns = <<>> THEN 1 ELSE Head(ns) * Product(Tail(ns))

getTotalSizes(argPatterns) ==
    [i \in 1..Len(argPatterns.pats) |-> Product(argPatterns.pats[i])]

RECURSIVE gcd(_, _)
gcd(x, y) == IF y = 0 THEN x ELSE gcd(y, x % y)

RECURSIVE getDivisibleSizeFrom(_, _, _)
getDivisibleSizeFrom(totalSizes, i, result) ==
    IF i > Len(totalSizes) THEN result
    ELSE getDivisibleSizeFrom(totalSizes, i + 1, gcd(result, totalSizes[i]))

getDivisibleSize(totalSizes) == getDivisibleSizeFrom(totalSizes, 2, totalSizes[1])

isValidSetSize(count) ==
    count >= setSizes[1] /\ count <= setSizes[Len(setSizes)]

\* if d <= prevD { prevD = d; setSize = cnt }
KeepsStrict(d, prevD) == d < prevD
Keeps(d, prevD) == d <= prevD

RECURSIVE commonSetDriveCountLoop(_, _, _, _, _)
commonSetDriveCountLoop(divisibleSize, setCounts, i, prevD, setSize) ==
    IF i > Len(setCounts) THEN setSize
    ELSE LET cnt == setCounts[i]
             d == divisibleSize \div cnt
             keep == divisibleSize % cnt = 0 /\ Keeps(d, prevD)
         IN commonSetDriveCountLoop(divisibleSize, setCounts, i + 1,
                                    IF keep THEN d ELSE prevD,
                                    IF keep THEN cnt ELSE setSize)

commonSetDriveCount(divisibleSize, setCounts) ==
    IF divisibleSize < setCounts[Len(setCounts)] THEN divisibleSize
    ELSE commonSetDriveCountLoop(divisibleSize, setCounts, 1,
                                 divisibleSize \div setCounts[1], 0)

\* All patterns of all arguments, in the order the loops visit them.
RECURSIVE Flatten(_)
Flatten(pats) == IF pats = <<>> THEN <<>> ELSE Head(pats) \o Flatten(Tail(pats))

\* The two nested loops over one candidate ss: every pattern assigns
\* the variable symmetry anew.
RECURSIVE symmetryLoop(_, _, _)
symmetryLoop(ss, ps, symmetry) ==
    IF ps = <<>> THEN symmetry
    ELSE symmetryLoop(ss, Tail(ps),
                      IF Head(ps) > ss THEN Head(ps) % ss = 0
                      ELSE ss % Head(ps) = 0)

possibleSetCountsWithSymmetry(setCounts, argPatterns) ==
    SeqOfSet({setCounts[i] : i \in
        {j \in 1..Len(setCounts) :
            \/ symmetryLoop(setCounts[j], Flatten(argPatterns.pats), FALSE)
            \/ argPatterns.nil}})

possibleSetCounts(setSize) ==
    SeqOfSet({setSizes[i] : i \in {j \in 1..Len(setSizes) : setSize % setSizes[j] = 0}})

NoPlan == <<>>

\* for j := 0; j < totalSizes[i]/setSize; j++ { append(setIndexes[i], setSize) }
Chunks(totalSizes, setSize) ==
    [i \in 1..Len(totalSizes) |-> [j \in 1..(totalSizes[i] \div setSize) |-> setSize]]

\* if totalSize < setSizes[0] || totalSize < customSetDriveCount
TooFewForSetSizes(totalSize, customSetDriveCount) == totalSize < setSizes[1]
TooFew(totalSize, customSetDriveCount) ==
    totalSize < setSizes[1] \/ totalSize < customSetDriveCount

\* for _, ss := range setCounts { if ss == customSetDriveCount { found = true } }
FoundAlways(setCounts, customSetDriveCount) == TRUE
Found(setCounts, customSetDriveCount) ==
    \E i \in 1..Len(setCounts) : setCounts[i] = customSetDriveCount

\* A return of getSetIndexes: the error, the set indexes, and the value
\* of the variable setCounts with whether the symmetry filter produced it.
PlanResult(err, setIndexes, setCounts, filtered) ==
    [err |-> err, setIndexes |-> setIndexes, setCounts |-> setCounts,
     filtered |-> filtered]

getSetIndexes(nargs, totalSizes, customSetDriveCount, argPatterns) ==
    IF Len(totalSizes) = 0 \/ nargs = 0
    THEN PlanResult("InvalidArgument", NoPlan, <<>>, FALSE)
    ELSE IF \E i \in 1..Len(totalSizes) : TooFew(totalSizes[i], customSetDriveCount)
    THEN PlanResult("InvalidNumberOfErasureEndpoints", NoPlan, <<>>, FALSE)
    ELSE LET commonSize == getDivisibleSize(totalSizes)
             setCounts == possibleSetCounts(commonSize)
         IN IF Len(setCounts) = 0
            THEN PlanResult("InvalidNumberOfErasureEndpoints", NoPlan, setCounts, FALSE)
            ELSE IF customSetDriveCount > 0
            THEN IF ~Found(setCounts, customSetDriveCount)
                 THEN PlanResult("InvalidErasureSetSize", NoPlan, setCounts, FALSE)
                 ELSE IF ~isValidSetSize(customSetDriveCount)
                 THEN PlanResult("InvalidNumberOfErasureEndpoints", NoPlan,
                                 setCounts, FALSE)
                 ELSE PlanResult("nil", Chunks(totalSizes, customSetDriveCount),
                                 setCounts, FALSE)
            ELSE LET symCounts == possibleSetCountsWithSymmetry(setCounts, argPatterns)
                 IN IF Len(symCounts) = 0
                    THEN PlanResult("InvalidNumberOfErasureEndpoints", NoPlan,
                                    symCounts, TRUE)
                    ELSE LET setSize == commonSetDriveCount(commonSize, symCounts)
                         IN IF ~isValidSetSize(setSize)
                            THEN PlanResult("InvalidNumberOfErasureEndpoints", NoPlan,
                                            symCounts, TRUE)
                            ELSE PlanResult("nil", Chunks(totalSizes, setSize),
                                            symCounts, TRUE)

\* The inputs: arguments with ellipses (every argument has at least one
\* pattern), or arguments without ellipses.
PatLens(k, n) == [1..k -> 1..n]

ArgShapes ==
    UNION {{<<a>> : a \in PatLens(k, MaxPat)} : k \in 1..MaxPatterns}
    \cup UNION {{<<a, b>> : a \in PatLens(k, MaxPat), b \in PatLens(m, MaxPat)} :
                <<k, m>> \in {km \in (1..MaxPatterns) \X (1..MaxPatterns) :
                                km[1] + km[2] <= MaxPatterns}}
    \cup {<< <<n>> >> : n \in 1..MaxOne}

\* A call of GetAllSets; dup: the last argument is the text of the first.
NewPlan(ell, argPatterns, n, custom, dup) ==
    [ell |-> ell, argPatterns |-> argPatterns, n |-> n, custom |-> custom,
     dup |-> dup, pc |-> "new", err |-> "-", setIndexes |-> NoPlan,
     setCounts |-> <<>>, filtered |-> FALSE, gerr |-> "-", sets |-> <<>>]

InitPlan ==
    /\ \E ell \in BOOLEAN, custom \in 0..MaxCustom, dup \in BOOLEAN :
         \/ /\ ell
            /\ \E args \in ArgShapes :
                 /\ dup => (Len(args) > 1 /\ args[Len(args)] = args[1])
                 /\ pl = NewPlan(TRUE, Patterns(args), Len(args), custom, dup)
         \/ /\ ~ell
            /\ \E n \in 1..MaxOne :
                 /\ dup => n > 1
                 /\ pl = NewPlan(FALSE, NilPatterns, n, custom, dup)
    /\ IdleButPlan

PlanOn == pl # <<>>

\* getEndpoints: the arguments themselves, or each argument's expansion
\* in turn. An endpoint is its number among the distinct endpoints.
Expansion(first, total) == [k \in 1..total |-> first + k - 1]

RECURSIVE getEndpointsFrom(_, _, _, _)
getEndpointsFrom(totalSizes, i, first, dup) ==
    IF i > Len(totalSizes) THEN <<>>
    ELSE IF dup /\ i = Len(totalSizes) THEN Expansion(1, totalSizes[i])
    ELSE Expansion(first, totalSizes[i])
         \o getEndpointsFrom(totalSizes, i + 1, first + totalSizes[i], dup)

getEndpoints(ell, argPatterns, n, dup) ==
    IF ell THEN getEndpointsFrom(getTotalSizes(argPatterns), 1, 1, dup)
    ELSE [k \in 1..n |-> IF dup /\ k = n THEN 1 ELSE k]

\* endpointSet.Get: sets = append(sets, endpoints[k:size+k]); k = size + k.
RECURSIVE GetFrom(_, _, _)
GetFrom(endpoints, sizes, k) ==
    IF sizes = <<>> THEN <<>>
    ELSE <<SubSeq(endpoints, k + 1, k + Head(sizes))>>
         \o GetFrom(endpoints, Tail(sizes), k + Head(sizes))

GetButLast(endpoints, setIndexes) ==
    LET sizes == Flatten(setIndexes)
    IN GetFrom(endpoints, SubSeq(sizes, 1, Len(sizes) - 1), 0)

Get(endpoints, setIndexes) == GetFrom(endpoints, Flatten(setIndexes), 0)

\* The loop over setArgs with uniqueArgs.
HasDuplicate(setArgs) ==
    LET flat == Flatten(setArgs)
    IN Cardinality({flat[i] : i \in 1..Len(flat)}) < Len(flat)

\* The end of GetAllSets with the set indexes r of its branch.
AllSets(p, r) ==
    LET setArgs == Get(getEndpoints(p.ell, p.argPatterns, p.n, p.dup), r.setIndexes)
        bad == HasDuplicate(setArgs)
    IN [p EXCEPT !.pc = "done", !.err = r.err, !.setIndexes = r.setIndexes,
                 !.setCounts = r.setCounts, !.filtered = r.filtered,
                 !.gerr = IF bad THEN "InvalidErasureEndpoints" ELSE "nil",
                 !.sets = IF bad THEN <<>> ELSE setArgs]

\* An error of the branch: GetAllSets returns nil and the error, which
\* parseEndpointSet has wrapped as ErrInvalidErasureEndpoints.
NoSets(p, r, gerr) ==
    [p EXCEPT !.pc = "done", !.err = r.err, !.setIndexes = r.setIndexes,
              !.setCounts = r.setCounts, !.filtered = r.filtered,
              !.gerr = gerr, !.sets = <<>>]

\* GetAllSets with ellipses: parseEndpointSet calls getSetIndexes(args,
\* getTotalSizes(argPatterns), customSetDriveCount, argPatterns).
ParseEndpointSet ==
    /\ PlanOn /\ pl.pc = "new" /\ pl.ell
    /\ LET r == getSetIndexes(pl.n, getTotalSizes(pl.argPatterns), pl.custom,
                              pl.argPatterns)
       IN pl' = IF r.err # "nil" THEN NoSets(pl, r, "InvalidErasureEndpoints")
                ELSE AllSets(pl, r)
    /\ UNCHANGED restPlan

\* GetAllSets without ellipses and more than one argument:
\* getSetIndexes(args, []uint64{uint64(len(args))}, customSetDriveCount, nil).
PlanPlain ==
    /\ PlanOn /\ pl.pc = "new" /\ ~pl.ell /\ pl.n > 1
    /\ LET r == getSetIndexes(pl.n, <<pl.n>>, pl.custom, pl.argPatterns)
       IN pl' = IF r.err # "nil" THEN NoSets(pl, r, r.err) ELSE AllSets(pl, r)
    /\ UNCHANGED restPlan

\* GetAllSets with one argument without ellipses: the FS setup,
\* setIndexes = [][]uint64{{uint64(len(args))}}.
PlanFS ==
    /\ PlanOn /\ pl.pc = "new" /\ ~pl.ell /\ pl.n = 1
    /\ pl' = AllSets(pl, PlanResult("-", <<<<pl.n>>>>, <<>>, FALSE))
    /\ UNCHANGED restPlan

NextPlan == ParseEndpointSet \/ PlanPlain \/ PlanFS

SpecPlan == InitPlan /\ [][NextPlan]_vars

\* --- claims about the planner ---

Planned == PlanOn /\ pl.pc = "done"

\* The totals of the arguments of the call.
PlanTotals == IF pl.ell THEN getTotalSizes(pl.argPatterns) ELSE <<pl.n>>

\* The greatest common divisor of the totals, by its definition.
Divides(d, n) == n % d = 0
PlanGCD ==
    LET ts == {PlanTotals[i] : i \in 1..Len(PlanTotals)}
        cd == {d \in 1..(CHOOSE t \in ts : TRUE) : \A t \in ts : Divides(d, t)}
    IN CHOOSE g \in cd : \A d \in cd : d <= g

\* The sizes in 2..16 that divide the GCD and pass the symmetry filter.
Candidates ==
    {s \in MinSetSize..MaxSetSize :
        /\ Divides(s, PlanGCD)
        /\ possibleSetCountsWithSymmetry(<<s>>, pl.argPatterns) # <<>>}

\* The number of sets a set size gives.
NumSets(s) == Sum([i \in 1..Len(PlanTotals) |-> PlanTotals[i] \div s])

PatternLens == Flatten(pl.argPatterns.pats)

SymmetricWith(s, L) == L % s = 0 \/ s % L = 0

\* C21: the set counts that possibleSetCountsWithSymmetry keeps are
\* symmetric with every pattern of every argument: for every kept s and
\* every expansion length L, L mod s = 0 or s mod L = 0.
C21_SymmetricWithEveryPattern ==
    (Planned /\ pl.ell /\ pl.filtered) =>
        \A i \in 1..Len(pl.setCounts) : \A k \in 1..Len(PatternLens) :
            SymmetricWith(pl.setCounts[i], PatternLens[k])

\* The flat expansion of the arguments of the call.
PlanEndpoints == getEndpoints(pl.ell, pl.argPatterns, pl.n, pl.dup)

\* C22: a successful GetAllSets over more than one endpoint returns sets
\* of one size S in 2..16 that divides every argument's total, and the
\* sets in order concatenate to the flat expansion, no endpoint twice.
C22_EvenSetsCoverEndpoints ==
    (Planned /\ pl.gerr = "nil" /\ Len(PlanEndpoints) > 1) =>
        /\ \E S \in MinSetSize..MaxSetSize :
              /\ \A k \in 1..Len(pl.sets) : Len(pl.sets[k]) = S
              /\ \A i \in 1..Len(PlanTotals) : Divides(S, PlanTotals[i])
        /\ Flatten(pl.sets) = PlanEndpoints
        /\ Cardinality(UNION {{pl.sets[k][j] : j \in 1..Len(pl.sets[k])} :
                                k \in 1..Len(pl.sets)}) = Len(PlanEndpoints)

\* Two arguments of 2 and 2 x 2 endpoints: three sets of 2.
C22_Witness ==
    /\ Planned /\ pl.gerr = "nil" /\ pl.custom = 0
    /\ pl.argPatterns.pats = << <<2>>, <<2, 2>> >>
    /\ pl.sets = << <<1, 2>>, <<3, 4>>, <<5, 6>> >>

\* getSetIndexes was called with an override.
Overridden == Planned /\ pl.custom > 0 /\ pl.err # "-"

\* The override is a size in 2..16 that divides the GCD of the totals.
InCandidateList ==
    pl.custom \in MinSetSize..MaxSetSize /\ Divides(pl.custom, PlanGCD)

\* C23 as stated: the override is the set size exactly when it is in the
\* candidate list, and otherwise planning fails with an
\* invalid-erasure-set-size error and no layout.
C23_OverrideOrSetSizeError ==
    Overridden =>
        IF InCandidateList
        THEN pl.err = "nil" /\ pl.setIndexes = Chunks(PlanTotals, pl.custom)
        ELSE pl.err = "InvalidErasureSetSize" /\ pl.setIndexes = NoPlan

\* An argument of fewer endpoints than 2 or than the override, or a GCD
\* that no size in 2..16 divides.
BadEndpointCount ==
    \/ \E i \in 1..Len(PlanTotals) :
          PlanTotals[i] < MinSetSize \/ PlanTotals[i] < pl.custom
    \/ \A s \in MinSetSize..MaxSetSize : ~Divides(s, PlanGCD)

\* C23 amended: the override is the set size exactly when it is in the
\* candidate list; otherwise planning fails with no layout, with an
\* invalid-number-of-endpoints error when an argument is smaller than 2 or
\* than the override or no size divides the GCD, and with an
\* invalid-erasure-set-size error in every other case.
C23_OverrideOrError ==
    Overridden =>
        IF InCandidateList
        THEN pl.err = "nil" /\ pl.setIndexes = Chunks(PlanTotals, pl.custom)
        ELSE /\ pl.setIndexes = NoPlan
             /\ pl.err = IF BadEndpointCount THEN "InvalidNumberOfErasureEndpoints"
                         ELSE "InvalidErasureSetSize"

\* 4 x 4 endpoints with an override of 8: two sets of 8.
C23_Witness ==
    /\ Overridden /\ pl.custom = 8 /\ pl.argPatterns.pats = << <<4, 4>> >>
    /\ pl.err = "nil" /\ pl.setIndexes = << <<8, 8>> >>

\* C24: with an argument of fewer endpoints than 2 or than the override,
\* or a GCD that no size in 2..16 divides, planning fails with an
\* invalid-number-of-endpoints error and returns no sets; 3 drives are
\* one set of 3.
C24_BadEndpointCountFails ==
    (Planned /\ pl.err # "-") =>
        /\ BadEndpointCount =>
              /\ pl.err = "InvalidNumberOfErasureEndpoints"
              /\ pl.setIndexes = NoPlan /\ pl.sets = <<>> /\ pl.gerr # "nil"
        /\ (pl.ell /\ pl.argPatterns.pats = << <<3>> >> /\ pl.custom = 0) =>
              /\ pl.err = "nil" /\ pl.setIndexes = << <<3>> >>
              /\ pl.sets = << <<1, 2, 3>> >>

\* 17 drives fail.
C24_Witness ==
    /\ Planned /\ pl.ell /\ pl.argPatterns.pats = << <<17>> >> /\ pl.custom = 0
    /\ pl.err = "InvalidNumberOfErasureEndpoints" /\ pl.sets = <<>>

\* ---------------------------------------------------------------------
\* The head of listPath: the argument check and the three early returns.
\* ---------------------------------------------------------------------

\* The longest prefix and marker, as strings over Chars.
MaxStr == 2

SlashSeparator == "/"
Chars == {SlashSeparator, "a", "b"}
Strings == UNION {[1..n -> Chars] : n \in 0..MaxStr}

\* HasPrefix(s, prefix) and strings.HasPrefix(s, prefix).
HasPrefix(s, prefix) == IsPrefix(prefix, s)

\* Lines 61-84 (269-292): the error of checkListObjsArgs, io.EOF of an
\* early return, or "go" when the call goes on to normalise its options.
ListPathHeadAnyLimit(argErr, opts) ==
    IF argErr # "nil" THEN argErr
    ELSE IF opts.Marker # <<>> /\ opts.Prefix # <<>>
            /\ ~HasPrefix(opts.Marker, opts.Prefix) THEN "EOF"
    ELSE IF HasPrefix(opts.Prefix, <<SlashSeparator>>) THEN "EOF"
    ELSE "go"

ListPathHead(argErr, opts) ==
    IF argErr # "nil" THEN argErr
    ELSE IF opts.Marker # <<>> /\ opts.Prefix # <<>>
            /\ ~HasPrefix(opts.Marker, opts.Prefix) THEN "EOF"
    ELSE IF opts.Limit = 0 THEN "EOF"
    ELSE IF HasPrefix(opts.Prefix, <<SlashSeparator>>) THEN "EOF"
    ELSE "go"

\* Lines 86-95 (294-303): IncludeDirectories, Recursive and Separator.
NormaliseKeepingRecursive(opts) ==
    LET inc == [opts EXCEPT !.IncludeDirectories = (opts.Separator = SlashSeparator)]
    IN IF (opts.Separator = SlashSeparator \/ opts.Separator = "") /\ ~opts.Recursive
       THEN [inc EXCEPT !.Recursive = (opts.Separator # SlashSeparator),
                        !.Separator = SlashSeparator]
       ELSE inc

Normalise(opts) ==
    LET inc == [opts EXCEPT !.IncludeDirectories = (opts.Separator = SlashSeparator)]
    IN IF (opts.Separator = SlashSeparator \/ opts.Separator = "") /\ ~opts.Recursive
       THEN [inc EXCEPT !.Recursive = (opts.Separator # SlashSeparator),
                        !.Separator = SlashSeparator]
       ELSE [inc EXCEPT !.Recursive = TRUE]

\* A call: the implementation, the verdict of checkListObjsArgs on the
\* bucket, prefix and marker, the options, and whether the marker carries
\* a list id.
InitArgs ==
    /\ \E impl \in {"pools", "single"}, argErr \in {"nil", "InvalidArgument"},
          prefix \in Strings, marker \in Strings, lim \in 0..MaxLimit,
          id \in BOOLEAN, sep \in {"", SlashSeparator, "-"}, rec \in BOOLEAN,
          inc \in BOOLEAN :
         ar = [impl |-> impl, argErr |-> argErr,
               o |-> [Prefix |-> prefix, Marker |-> marker, Limit |-> lim,
                      ID |-> IF id THEN "m" ELSE "", Transient |-> FALSE,
                      Separator |-> sep, Recursive |-> rec,
                      IncludeDirectories |-> inc],
               given |-> [Separator |-> sep, Recursive |-> rec],
               norm |-> FALSE, pc |-> "new", looked |-> FALSE, listed |-> FALSE,
               ret |-> FALSE, entries |-> <<>>, err |-> "-"]
    /\ IdleButArgs

ArgsOn == ar # <<>>

\* The head returns, or the call goes to the lookup or to the raw listing.
ArgsHead ==
    /\ ArgsOn /\ ar.pc = "new"
    /\ LET h == ListPathHead(ar.argErr, ar.o)
       IN ar' = IF h = "go"
                THEN [ar EXCEPT !.pc = IF NeedsLookup(ar.o) THEN "lookup" ELSE "list",
                                !.o = Normalise(ar.o), !.norm = TRUE]
                ELSE [ar EXCEPT !.pc = "done", !.ret = TRUE, !.err = h]
    /\ UNCHANGED restArgs

\* The cache manager is asked for the cache of the marker's list id.
ArgsLookup ==
    /\ ArgsOn /\ ar.pc = "lookup"
    /\ ar' = [ar EXCEPT !.pc = "list", !.looked = TRUE]
    /\ UNCHANGED restArgs

\* The sets are listed (always when no cache was looked up, and when the
\* cache found cannot be used), or the cache is streamed; a page is returned.
ArgsList ==
    /\ ArgsOn /\ ar.pc = "list"
    /\ \E page \in {<<>>} \cup {SeqTo(n) : n \in 1..ar.o.Limit},
          e \in {"nil", "EOF"},
          l \in (IF ar.looked THEN BOOLEAN ELSE {TRUE}) :
         ar' = [ar EXCEPT !.pc = "done", !.ret = TRUE, !.listed = l,
                          !.entries = page, !.err = e]
    /\ UNCHANGED restArgs

NextArgs == ArgsHead \/ ArgsLookup \/ ArgsList

SpecArgs == InitArgs /\ [][NextArgs]_vars

\* --- claims about the head of listPath ---

\* The three cases of an empty answer.
EmptyCase ==
    \/ ar.o.Limit = 0
    \/ /\ ar.o.Marker # <<>> /\ ar.o.Prefix # <<>>
       /\ \E i \in 1..Len(ar.o.Prefix) :
             i > Len(ar.o.Marker) \/ ar.o.Marker[i] # ar.o.Prefix[i]
    \/ ar.o.Prefix # <<>> /\ ar.o.Prefix[1] = "/"

\* C19: with valid arguments, a call with Limit 0, with a non-empty marker
\* that does not start with the non-empty prefix, or with a prefix that
\* starts with "/", never looks up a cache and never lists a set, and it
\* returns an empty page with io.EOF.
C19_EmptyAnswers ==
    (ArgsOn /\ ar.argErr = "nil" /\ EmptyCase) =>
        /\ ~ar.looked /\ ~ar.listed /\ ar.pc \in {"new", "done"}
        /\ ar.ret => (ar.entries = <<>> /\ ar.err = "EOF")

\* A call with Limit 0, a matching marker and a list id has returned.
C19_Witness ==
    /\ ArgsOn /\ ar.argErr = "nil" /\ ar.ret
    /\ ar.o.Limit = 0 /\ ar.o.ID = "m"
    /\ ar.o.Prefix = <<"a">> /\ ar.o.Marker = <<"a", "b">>
    /\ ar.entries = <<>> /\ ar.err = "EOF"

\* ---------------------------------------------------------------------
\* Two listers of one bucket, prefix and delimiter, and the cache manager.
\* ---------------------------------------------------------------------

Listers == {1, 2}

\* mustGetUUID(): the id a lister draws, and the id the manager reserves.
ListerUUID(i) == IF i = 1 THEN "u1" ELSE "u2"
CacheUUID(caches) == IF caches = <<>> THEN "c1" ELSE "c2"

\* The bucket holds keys 1..n under the prefix; a page has Limit of them.
InitJoin ==
    /\ \E n \in 2..MaxStream, lim \in 1..MaxLimit :
         /\ lim < n
         /\ jn = [keys |-> SeqTo(n), Limit |-> lim,
                  caches |-> <<>>,
                  l |-> [i \in Listers |->
                           [pc |-> "cold", ID |-> "", Create |-> FALSE,
                            Marker |-> 0, listID |-> "", via |-> "-",
                            pages |-> <<>>]]]
    /\ IdleButJoin

JoinOn == jn # <<>>

\* The keys after the marker, up to the limit, and whether more remain.
PageAfter(keys, marker, limit) ==
    Take(SelectSeq(keys, LAMBDA k : k > marker), limit)

MoreAfter(keys, marker, limit) ==
    Len(SelectSeq(keys, LAMBDA k : k > marker)) > limit

\* The cold call: o.ID is empty, the lookup and the serving block are
\* skipped, the sets are listed; a truncated page gets a list id of its own.
JoinCold(i) ==
    /\ JoinOn /\ jn.l[i].pc = "cold"
    /\ jn' = [jn EXCEPT !.l[i] =
                [@ EXCEPT !.pc = "paged", !.via = "raw",
                          !.pages = <<PageAfter(jn.keys, 0, jn.Limit)>>,
                          !.listID = IF MoreAfter(jn.keys, 0, jn.Limit)
                                     THEN ListerUUID(i) ELSE ""]]
    /\ UNCHANGED restJoin

\* The lister comes back with its marker: parseMarker gives the list id of
\* the marker, and sets Create when the id is not yet the id of a cache.
JoinBegin(i) ==
    /\ JoinOn /\ jn.l[i].pc = "paged" /\ jn.l[i].listID # ""
    /\ LET last == jn.l[i].pages[Len(jn.l[i].pages)]
       IN jn' = [jn EXCEPT !.l[i] =
                   [@ EXCEPT !.pc = "lookup", !.ID = jn.l[i].listID,
                             !.Create = (jn.l[i].listID = ListerUUID(i)),
                             !.Marker = last[Len(last)]]]
    /\ UNCHANGED restJoin

\* findCache: an existing cache of the same prefix and filter whose status
\* is not error, or else a freshly reserved cache with status started.
FindCache(caches) ==
    IF \E k \in 1..Len(caches) : caches[k].status # "error"
    THEN LET k == CHOOSE k \in 1..Len(caches) : caches[k].status # "error"
         IN [caches |-> caches, c |-> caches[k]]
    ELSE LET c == [id |-> CacheUUID(caches), status |-> "started", writers |-> 0]
         IN [caches |-> Append(caches, c), c |-> c]

\* The lookup block with the manager's answer: status started or success,
\* so o.ID = c.id; o.Create is left as it was.
JoinLookup(i) ==
    /\ JoinOn /\ jn.l[i].pc = "lookup"
    /\ LET f == FindCache(jn.caches)
       IN jn' = [jn EXCEPT !.caches = f.caches,
                           !.l[i] = [@ EXCEPT !.pc = "serve", !.ID = f.c.id]]
    /\ UNCHANGED restJoin

\* The position of the cache with the given id.
CacheAt(caches, id) == CHOOSE k \in 1..Len(caches) : caches[k].id = id

\* The page of a served call: entries.listID = o.ID while more remain.
JoinPage(lister, keys, limit) ==
    [lister EXCEPT !.pc = "paged",
                   !.pages = Append(@, PageAfter(keys, lister.Marker, limit)),
                   !.listID = IF MoreAfter(keys, lister.Marker, limit)
                              THEN lister.ID ELSE ""]

\* if o.Create { listAndSave } else { streamMetadataParts }: the sets are
\* listed and the stream is saved under o.ID, or the cache is read.
JoinServe(i) ==
    /\ JoinOn /\ jn.l[i].pc = "serve"
    /\ LET k == CacheAt(jn.caches, jn.l[i].ID)
       IN IF jn.l[i].Create
          THEN jn' = [jn EXCEPT !.caches[k].writers = @ + 1,
                                !.l[i] = [@ EXCEPT !.pc = "saving", !.via = "listAndSave"]]
          ELSE jn' = [jn EXCEPT !.l[i] =
                         JoinPage([jn.l[i] EXCEPT !.via = "stream"], jn.keys, jn.Limit)]
    /\ UNCHANGED restJoin

\* listAndSave returns the page; its saver has written the cache.
JoinSaved(i) ==
    /\ JoinOn /\ jn.l[i].pc = "saving"
    /\ LET k == CacheAt(jn.caches, jn.l[i].ID)
       IN jn' = [jn EXCEPT !.caches[k].status = "success",
                           !.l[i] = JoinPage(jn.l[i], jn.keys, jn.Limit)]
    /\ UNCHANGED restJoin

NextJoin ==
    \E i \in Listers :
        JoinCold(i) \/ JoinBegin(i) \/ JoinLookup(i) \/ JoinServe(i) \/ JoinSaved(i)

SpecJoin == InitJoin /\ [][NextJoin]_vars

\* --- claims about two listers ---

\* C17: two concurrent listings of the same bucket, prefix and delimiter
\* leave one persisted cache with one writer: a lister that finds the
\* other's cache reads it and does not list and save again; and both
\* listers receive the same keys in the same order.
C17_SecondListerJoins ==
    JoinOn =>
        /\ Len(jn.caches) <= 1
        /\ \A k \in 1..Len(jn.caches) : jn.caches[k].writers <= 1
        /\ \/ IsPrefix(jn.l[1].pages, jn.l[2].pages)
           \/ IsPrefix(jn.l[2].pages, jn.l[1].pages)

\* C25: a call that passes its head has IncludeDirectories true exactly
\* when the given Separator is "/"; given Recursive unset, Separator "/"
\* stays non-recursive and an empty Separator becomes recursive with
\* Separator "/"; every other request is recursive, its Separator kept.
C25_NormalisedOptions ==
    (ArgsOn /\ ar.norm) =>
        /\ ar.o.IncludeDirectories = (ar.given.Separator = "/")
        /\ (~ar.given.Recursive /\ ar.given.Separator = "/") =>
               (~ar.o.Recursive /\ ar.o.Separator = "/")
        /\ (~ar.given.Recursive /\ ar.given.Separator = "") =>
               (ar.o.Recursive /\ ar.o.Separator = "/")
        /\ (ar.given.Recursive \/ ar.given.Separator \notin {"", "/"}) =>
               (ar.o.Recursive /\ ar.o.Separator = ar.given.Separator)

\* A request with another separator and Recursive unset was made
\* recursive, although IncludeDirectories was given as true.
C25_Witness ==
    /\ ArgsOn /\ ar.norm /\ ar.ret
    /\ ar.given = [Separator |-> "-", Recursive |-> FALSE]
    /\ ar.o.Recursive /\ ~ar.o.IncludeDirectories /\ ar.o.Separator = "-"

\* ------------------------------------------ claims about the serving block

\* listAndSave found no pool with space for the cache.
DiskFull == calls > 0 /\ tr.serr = "DiskFull"

\* C29: when no pool has space, listAndSave starts no lister and no saver
\* and leaves the options transient, with the id cleared, Create false and
\* pool 0; listPath goes on to the raw listing and the page it returns
\* comes from that listing and carries no list id.
C29_NoSpaceListsTransient ==
    DiskFull =>
        /\ ~tr.started
        /\ o.Transient /\ o.ID = "" /\ ~o.Create /\ o.pool = 0
        /\ pc = "raw" \/ Returned
        /\ Returned => /\ tr.via = "raw" /\ tr.called = {"save", "raw"}
                       /\ res.listID = ""

\* A truncated page of the raw listing after errDiskFull, without list id.
C29_Witness ==
    /\ DiskFull /\ Returned /\ tr.via = "raw"
    /\ res.err = "nil" /\ res.entries # <<>> /\ res.listID = ""

\* A pool or set index that the topology does not have.
OutOfTopology(p, s) == p >= Len(Topology) \/ s >= Topology[p + 1]

\* The marker of the call held a list id with such a pool or set.
PresentedOutOfRange ==
    /\ calls > 0 /\ cfg.impl = "pools"
    /\ tr.tag.ID # "" /\ ~tr.tag.Create
    /\ OutOfTopology(tr.tag.pool, tr.tag.set)

MaxSetLen == 2
\* The capacity of the channels: innerResults (100 in the code), filterIn
\* (10 in the code) and filterCh (o.Limit).
CapRaw == 1

SetErrs == {"nil", "EOF", "NotFound", "Other"}

\* The sets of a listing: two under the pools when nothing is in between,
\* one otherwise.
RawSets(impl, filter) == IF impl = "pools" /\ ~filter THEN 2 ELSE 1

SetIdx(r) == 1..Len(r.lens)

NewRaw(impl, filter, lens, kinds) ==
    [impl |-> impl, filter |-> filter, Limit |-> CapRaw, kinds |-> kinds,
     ctx |-> FALSE, cancelList |-> FALSE, cancelSets |-> FALSE,
     lens |-> lens, left |-> lens,
     innerResults |-> [i \in 1..Len(lens) |-> 0],
     closed |-> [i \in 1..Len(lens) |-> FALSE],
     wg |-> 1..Len(lens),
     errs |-> [i \in 1..Len(lens) |-> "nil"],
     allAtEOF |-> TRUE,
     mpc |-> "merge", best |-> 0, mergeErr |-> "nil", idx |-> 1,
     seen |-> "no", listErr |-> "nil",
     filterIn |-> 0, filterInClosed |-> FALSE,
     fpc |-> IF filter THEN "recv" ELSE "off",
     filterCh |-> 0, closes |-> 0,
     gpc |-> "read", gathered |-> 0,
     cpc |-> "gather", gerr |-> "-"]

\* One raw listing of either kind, with and without applyBucketActions,
\* over sets that stream up to 2 * MaxSetLen entries together, the first
\* set no fewer than the second, and end with nil or with an error of
\* their own.
InitRaw ==
    /\ \E impl \in {"pools", "single"} :
       \E filter \in BOOLEAN :
       \E lens \in [1..RawSets(impl, filter) ->
                       0..((2 * MaxSetLen) \div RawSets(impl, filter))] :
          /\ \A i \in 2..Len(lens) : lens[i] <= lens[i - 1]
          /\ rw = NewRaw(impl, filter, lens, {"nil", "Other"})
    /\ IdleButRaw

\* One raw listing over the pools without applyBucketActions, over sets
\* that are empty or full and end with nil or any error.
InitMerged ==
    /\ \E lens \in [1..2 -> {0, MaxSetLen}] :
          rw = NewRaw("pools", FALSE, lens, SetErrs)
    /\ IdleButRaw

RawOn == rw # <<>>

\* The context listMerged, applyBucketActions and gatherResults are given
\* is listPath's listCtx: done when the caller's context is cancelled or
\* cancelList was called.
CallerCtxDone(r) == r.ctx
ListCtxDone(r) == r.ctx \/ r.cancelList

\* The context the per-set listers are given is listMerged's own listCtx.
SetCtxDone(r) == ListCtxDone(r) \/ r.cancelSets

\* The caller's context is cancelled: the client went away.
CtxCancel ==
    /\ RawOn /\ ~rw.ctx /\ rw.cpc # "ret"
    /\ rw' = [rw EXCEPT !.ctx = TRUE]
    /\ UNCHANGED restRaw

\* --- the per-set listers

\* set.listPath sends an entry on its innerResults.
ListerSend(i) ==
    /\ RawOn /\ i \in rw.wg
    /\ rw.left[i] > 0 /\ rw.innerResults[i] < CapRaw
    /\ rw' = [rw EXCEPT !.left[i] = @ - 1, !.innerResults[i] = @ + 1]
    /\ UNCHANGED restRaw

\* set.listPath has returned err, its innerResults closed: the goroutine
\* around it records the error and leaves the wait group.
ListerDone(r, i, err) ==
    [r EXCEPT !.closed[i] = TRUE, !.errs[i] = err,
              !.allAtEOF = IF r.impl = "pools" /\ err = "nil"
                           THEN FALSE ELSE @,
              !.wg = @ \ {i}]

\* set.listPath ends by itself, with nil or an error; not-found only from
\* a set that had nothing to stream.
ListerEnd(i) ==
    /\ RawOn /\ i \in rw.wg /\ rw.left[i] = 0
    /\ \E err \in rw.kinds :
          /\ err = "NotFound" => rw.lens[i] = 0
          /\ rw' = ListerDone(rw, i, err)
    /\ UNCHANGED restRaw

\* set.listPath gives up because its context is done.
ListerCtx(i) ==
    /\ RawOn /\ i \in rw.wg /\ SetCtxDone(rw)
    /\ rw' = ListerDone(rw, i, "Canceled")
    /\ UNCHANGED restRaw

ListerStepRaw(i) == ListerSend(i) \/ ListerEnd(i) \/ ListerCtx(i)

\* --- listMerged

\* close(c) on the channel mergeEntryChannels writes to: filterIn when
\* applyBucketActions is in between, the results channel otherwise.
CloseResults(r) ==
    IF r.filter THEN [r EXCEPT !.filterInClosed = TRUE]
    ELSE [r EXCEPT !.closes = @ + 1]

\* mergeEntryChannels takes the next entry of an input.
MergeTake(i) ==
    /\ RawOn /\ rw.mpc = "merge" /\ rw.best = 0
    /\ i \in SetIdx(rw) /\ rw.innerResults[i] > 0
    /\ rw' = [rw EXCEPT !.innerResults[i] = @ - 1, !.best = 1]
    /\ UNCHANGED restRaw

\* mergeEntryChannels sends the entry on.
MergeSend ==
    /\ RawOn /\ rw.mpc = "merge" /\ rw.best = 1
    /\ IF rw.filter
       THEN /\ rw.filterIn < CapRaw
            /\ rw' = [rw EXCEPT !.filterIn = @ + 1, !.best = 0]
       ELSE /\ rw.filterCh < rw.Limit
            /\ rw' = [rw EXCEPT !.filterCh = @ + 1, !.best = 0]
    /\ UNCHANGED restRaw

\* mergeEntryChannels returns nil when every input is closed and drained:
\* it closes its output; listMerged then calls cancelList.
MergeDrained ==
    /\ RawOn /\ rw.mpc = "merge" /\ rw.best = 0
    /\ \A i \in SetIdx(rw) : rw.closed[i] /\ rw.innerResults[i] = 0
    /\ rw' = [CloseResults(rw) EXCEPT !.mergeErr = "nil", !.cancelSets = TRUE,
                                  !.mpc = "wait"]
    /\ UNCHANGED restRaw

\* mergeEntryChannels returns the context's error when its context is
\* done: it closes its output; listMerged then calls cancelList.
MergeCtx ==
    /\ RawOn /\ rw.mpc = "merge" /\ ListCtxDone(rw)
    /\ rw' = [CloseResults(rw) EXCEPT !.mergeErr = "Canceled", !.best = 0,
                                  !.cancelSets = TRUE, !.mpc = "wait"]
    /\ UNCHANGED restRaw

\* wg.Wait() of listMerged.
WaitDoneAlways(r) == TRUE
WaitDone(r) == r.wg = {}

\* listMerged returns err to the goroutine of listPath, which stores it
\* in listErr and leaves listPath's wait group.
MergedReturn(r, err, seen) ==
    [r EXCEPT !.listErr = err, !.seen = seen, !.mpc = "ret"]

\* erasureSingle.listMerged after wg.Wait().
MergedSingle(r) ==
    IF r.mergeErr # "nil" THEN MergedReturn(r, r.mergeErr, r.seen)
    ELSE IF r.errs[1] # "nil" THEN
         IF ListCtxDone(r) THEN MergedReturn(r, "nil", "listErr")
         ELSE IF r.errs[1] = "EOF" THEN MergedReturn(r, "nil", r.seen)
         ELSE MergedReturn(r, r.errs[1], r.seen)
    ELSE IF ListCtxDone(r) THEN MergedReturn(r, "Canceled", "check")
    ELSE MergedReturn(r, "nil", r.seen)

\* erasureServerPools.listMerged after wg.Wait(), up to the loop over errs.
MergedPools(r) ==
    IF r.mergeErr # "nil" THEN MergedReturn(r, r.mergeErr, r.seen)
    ELSE IF ListCtxDone(r) THEN MergedReturn(r, "Canceled", "check")
    ELSE IF IsAllNotFound(r.errs) THEN MergedReturn(r, "nil", r.seen)
    ELSE [r EXCEPT !.mpc = "loop", !.idx = 1]

MergedWait ==
    /\ RawOn /\ rw.mpc = "wait" /\ WaitDone(rw)
    /\ rw' = IF rw.impl = "pools" THEN MergedPools(rw) ELSE MergedSingle(rw)
    /\ UNCHANGED restRaw

\* err.Error() == io.EOF.Error() in the loop over errs.
AtEOFNever(err) == FALSE
AtEOF(err) == err = "EOF"

\* One round of the loop over errs of erasureServerPools.listMerged.
MergedLoop ==
    /\ RawOn /\ rw.mpc = "loop" /\ rw.idx <= Len(rw.errs)
    /\ LET err == rw.errs[rw.idx]
           next == [rw EXCEPT !.idx = @ + 1]
       IN rw' = IF err = "nil" THEN [next EXCEPT !.allAtEOF = FALSE]
                ELSE IF ListCtxDone(rw)
                     THEN [next EXCEPT !.allAtEOF = FALSE, !.seen = "loop"]
                ELSE IF AtEOF(err) THEN next
                ELSE MergedReturn(rw, err, rw.seen)
    /\ UNCHANGED restRaw

\* After the loop: io.EOF when every set was at io.EOF, nil otherwise.
MergedLoopEnd ==
    /\ RawOn /\ rw.mpc = "loop" /\ rw.idx > Len(rw.errs)
    /\ rw' = MergedReturn(rw, IF rw.allAtEOF THEN "EOF" ELSE "nil", rw.seen)
    /\ UNCHANGED restRaw

MergerStepRaw ==
    \/ \E i \in 1..2 : MergeTake(i)
    \/ MergeSend \/ MergeDrained \/ MergeCtx
    \/ MergedWait \/ MergedLoop \/ MergedLoopEnd

\* --- applyBucketActions between filterIn and filterCh

\* An entry arrives: it is dropped (unreadable, or expired by lifecycle)
\* or held to be sent.
FilterRecv ==
    /\ RawOn /\ rw.fpc = "recv" /\ rw.filterIn > 0
    /\ \E keep \in BOOLEAN :
          rw' = [rw EXCEPT !.filterIn = @ - 1,
                           !.fpc = IF keep THEN "send" ELSE "recv"]
    /\ UNCHANGED restRaw

\* in is closed and empty: return, the deferred close(out) runs.
FilterClosed ==
    /\ RawOn /\ rw.fpc = "recv" /\ rw.filterIn = 0 /\ rw.filterInClosed
    /\ rw' = [rw EXCEPT !.fpc = "end", !.closes = @ + 1]
    /\ UNCHANGED restRaw

\* ctx.Done() in either select: return, the deferred close(out) runs.
FilterCtx ==
    /\ RawOn /\ rw.fpc \in {"recv", "send"} /\ ListCtxDone(rw)
    /\ rw' = [rw EXCEPT !.fpc = "end", !.closes = @ + 1]
    /\ UNCHANGED restRaw

\* out <- obj
FilterSend ==
    /\ RawOn /\ rw.fpc = "send" /\ rw.filterCh < rw.Limit
    /\ rw' = [rw EXCEPT !.filterCh = @ + 1, !.fpc = "recv"]
    /\ UNCHANGED restRaw

FilterStepRaw == FilterRecv \/ FilterClosed \/ FilterCtx \/ FilterSend

\* --- gatherResults

\* The gatherer reads filterCh until it holds Limit+1 entries.
GatherRead ==
    /\ RawOn /\ rw.gpc = "read" /\ rw.filterCh > 0
    /\ rw' = [rw EXCEPT !.filterCh = @ - 1, !.gathered = @ + 1,
                        !.gpc = IF rw.gathered + 1 > rw.Limit
                                THEN "hand" ELSE "read"]
    /\ UNCHANGED restRaw

\* filterCh is closed and empty: the page is complete.
GatherClosed ==
    /\ RawOn /\ rw.gpc = "read" /\ rw.filterCh = 0 /\ rw.closes > 0
    /\ rw' = [rw EXCEPT !.gpc = "hand"]
    /\ UNCHANGED restRaw

\* After the page was handed over the gatherer may go on reading, so that
\* the senders are not held up; nothing obliges it to.
GatherDrain ==
    /\ RawOn /\ rw.gpc = "drain" /\ rw.filterCh > 0
    /\ rw' = [rw EXCEPT !.filterCh = @ - 1]
    /\ UNCHANGED restRaw

GatherStepRaw == GatherRead \/ GatherClosed

\* --- listPath

\* filteredResults() returns the page the gatherer hands over.
CallerResult ==
    /\ RawOn /\ rw.cpc = "gather" /\ rw.gpc = "hand"
    /\ rw' = [rw EXCEPT !.cpc = "cancel", !.gpc = "drain",
                        !.gerr = IF rw.gathered > rw.Limit
                                 THEN "nil" ELSE "EOF"]
    /\ UNCHANGED restRaw

\* filteredResults() returns because the context is done.
CallerCtx ==
    /\ RawOn /\ rw.cpc = "gather" /\ ListCtxDone(rw)
    /\ rw' = [rw EXCEPT !.cpc = "cancel", !.gerr = "Canceled"]
    /\ UNCHANGED restRaw

\* cancelList() after the page was gathered.
CallerCancel ==
    /\ RawOn /\ rw.cpc = "cancel"
    /\ rw' = [rw EXCEPT !.cancelList = TRUE, !.cpc = "wait"]
    /\ UNCHANGED restRaw

\* wg.Wait() of listPath: until the goroutine running listMerged is done.
CallerWait ==
    /\ RawOn /\ rw.cpc = "wait" /\ rw.mpc = "ret"
    /\ rw' = [rw EXCEPT !.cpc = "ret"]
    /\ UNCHANGED restRaw

CallerStepRaw == CallerResult \/ CallerCtx \/ CallerCancel \/ CallerWait

\* The steps of the goroutines the scheduler runs: all but the client going
\* away and the gatherer reading on after the page.
GoStep ==
    \/ \E i \in 1..2 : ListerStepRaw(i)
    \/ MergerStepRaw
    \/ FilterStepRaw
    \/ GatherStepRaw
    \/ CallerStepRaw

NextRaw == GoStep \/ CtxCancel \/ GatherDrain

\* While some goroutine can take a step, one of them eventually does.
FairRaw == WF_vars(GoStep)

SpecRaw == InitRaw /\ [][NextRaw]_vars /\ FairRaw

\* listMerged over the pools, its listers, and whoever reads its results.
NextMerged ==
    \/ CtxCancel
    \/ \E i \in 1..2 : ListerStepRaw(i)
    \/ MergerStepRaw
    \/ GatherStepRaw \/ GatherDrain
    \/ CallerStepRaw

SpecMerged == InitMerged /\ [][NextMerged]_vars

\* --- claims about the raw-list path's goroutines

\* erasureServerPools.listMerged has returned after a merge that succeeded.
MergedOK ==
    RawOn /\ rw.impl = "pools" /\ rw.mpc = "ret" /\ rw.mergeErr = "nil"

\* What is to be returned when the context is not cancelled: nil if every
\* set reported not-found, else the first set error that is neither nil
\* nor io.EOF, else io.EOF if every set ended with io.EOF, else nil.
SetsErr(errs) ==
    IF \A i \in 1..Len(errs) : errs[i] = "NotFound" THEN "nil"
    ELSE IF \E i \in 1..Len(errs) : errs[i] \notin {"nil", "EOF"}
         THEN errs[CHOOSE i \in 1..Len(errs) :
                      /\ errs[i] \notin {"nil", "EOF"}
                      /\ \A j \in 1..(i - 1) : errs[j] \in {"nil", "EOF"}]
    ELSE IF \A i \in 1..Len(errs) : errs[i] = "EOF" THEN "EOF"
    ELSE "nil"

\* C26 as stated: after a successful merge listMerged returns the sets'
\* error when it did not find the context cancelled, and the context's
\* error when it did.
C26_CancelledReturnsCtxErr ==
    MergedOK =>
        /\ rw.seen = "no" => rw.listErr = SetsErr(rw.errs)
        /\ rw.seen # "no" => rw.listErr = "Canceled"

\* C26: after a successful merge listMerged returns the sets' error when
\* it did not find the context cancelled, the context's error when the
\* test right after the merge found it cancelled, and nil when the context
\* was first found cancelled inside the loop over the sets' errors.
C26_ReturnAfterMerge ==
    MergedOK =>
        /\ rw.seen = "no" => rw.listErr = SetsErr(rw.errs)
        /\ rw.seen = "check" => rw.listErr = "Canceled"
        /\ rw.seen = "loop" => rw.listErr = "nil"

C26_Witness ==
    /\ MergedOK /\ rw.seen = "loop" /\ rw.listErr = "nil"
    /\ rw.errs = <<"EOF", "Other">>

\* C27: listMerged returns only when every per-set lister it started is
\* done, and the results channel is closed at most once and eventually
\* once, with and without applyBucketActions in between.
C27_ListersDoneClosedOnce ==
    /\ [](rw.mpc = "ret" => rw.wg = {} /\ \A i \in SetIdx(rw) : rw.closed[i])
    /\ [](rw.closes <= 1)
    /\ <>(rw.closes = 1)

C27_Witness ==
    /\ RawOn /\ rw.mpc = "ret" /\ rw.filter /\ rw.closes = 1
    /\ rw.impl = "pools" /\ rw.wg = {} /\ rw.errs[1] = "Canceled"

\* C28: listPath returns only after the goroutine running listMerged is
\* done, it has cancelled the listing context before it waits, and it
\* always returns.
C28_ReturnsAfterMerger ==
    /\ [](rw.cpc = "ret" => rw.mpc = "ret")
    /\ [](rw.cpc \in {"wait", "ret"} => rw.cancelList)
    /\ <>(rw.cpc = "ret")

C28_Witness ==
    /\ RawOn /\ rw.cpc = "ret" /\ ~rw.ctx /\ rw.gerr = "nil"
    /\ rw.mergeErr = "Canceled" /\ rw.filterCh = rw.Limit

\* ---------------------------------------------------------------------
\* BucketMetadataSys: the metadata map in memory, the metadata saved by
\* meta.Save and read by loadBucketMetadata, two callers of Update, and
\* callers of Set and GetConfig.

\* The values a config file's data takes.
MaxData == 1
\* The calls of Set and GetConfig beside the two Update calls.
MaxMetaOps == 1

minioMetaBucket == ".minio.sys"

MetaBuckets == {"b", minioMetaBucket}

\* The config files of an Update call: three the switch knows, the third
\* being bucketTargetsFile, which is encrypted, and one it does not know.
ConfigFiles == {"policy", "tagging", "targets", "unknown"}

\* newBucketMetadata: no config set.
newBucketMetadata == [policy |-> 0, tagging |-> 0, targets |-> 0]

Metas == [policy : 0..MaxData, tagging : 0..MaxData, targets : 0..MaxData]

NoMeta == [none |-> TRUE]

NoUpdate ==
    [pc |-> "idle", bucket |-> "", file |-> "", data |-> 0,
     meta |-> NoMeta, err |-> "-"]

\* The server: whether the object layer is up, the gateway ("" for none,
\* "nas", or another), erasure or single-drive mode; the bucket has saved
\* metadata or none.
InitMeta ==
    /\ \E objAPI \in BOOLEAN :
       \E gateway \in {"", "nas", "s3"} :
       \E erasure \in BOOLEAN :
       \E saved \in {NoMeta, newBucketMetadata} :
          bm = [objAPI |-> objAPI, gateway |-> gateway, erasure |-> erasure,
                disk |-> saved,
                map |-> [b \in MetaBuckets |-> NoMeta],
                u |-> [p \in 1..2 |-> NoUpdate],
                ops |-> 0]
    /\ IdleButMeta

MetaOn == bm # <<>>

\* Set: nothing in gateway mode, nothing for the meta bucket.
SetGuardNone(bucket) == TRUE
SetGuard(bucket) == bucket # minioMetaBucket

Set(r, bucket, meta) ==
    IF r.gateway # "" THEN r.map
    ELSE IF SetGuard(bucket) THEN [r.map EXCEPT ![bucket] = meta]
    ELSE r.map

\* The switch of Update: the config file's field is replaced.
WithConfig(meta, file, data) ==
    CASE file = "policy"  -> [meta EXCEPT !.policy = data]
      [] file = "tagging" -> [meta EXCEPT !.tagging = data]
      [] OTHER            -> [meta EXCEPT !.targets = data]

\* loadBucketMetadata: the saved metadata, errVolumeNotFound when there is
\* none, or another error.
LoadOutcomes(r) ==
    IF r.disk = NoMeta THEN {"VolumeNotFound", "Other"} ELSE {"nil", "Other"}

UpdateReturn(r, p, err) ==
    [r EXCEPT !.u[p].pc = "done", !.u[p].err = err]

\* Update up to the call of meta.Save: the object layer, the gateway
\* branch, the meta bucket, loadBucketMetadata with its single-drive
\* fallback, and the switch with encryptBucketMetadata.
UpdateBegin(p) ==
    /\ MetaOn /\ bm.u[p].pc = "idle"
    /\ \E bucket \in MetaBuckets :
       \E file \in ConfigFiles :
       \E data \in 1..MaxData :
       \E lerr \in LoadOutcomes(bm) :
       \E encrypted \in BOOLEAN :
       \E gwerr \in {"nil", "Other"} :
          LET r == [bm EXCEPT !.u[p].bucket = bucket, !.u[p].file = file,
                              !.u[p].data = data]
              loaded == IF lerr = "nil" THEN bm.disk ELSE newBucketMetadata
          IN bm' =
             IF ~bm.objAPI THEN UpdateReturn(r, p, "ServerNotInitialized")
             ELSE IF bm.gateway = "s3" THEN
                  UpdateReturn(r, p, IF file = "policy" THEN gwerr
                                     ELSE "NotImplemented")
             ELSE IF bucket = minioMetaBucket THEN
                  UpdateReturn(r, p, "InvalidArgument")
             ELSE IF lerr = "Other" \/ (lerr = "VolumeNotFound" /\ bm.erasure)
                  THEN UpdateReturn(r, p, lerr)
             ELSE IF file = "targets" /\ ~encrypted THEN
                  UpdateReturn(r, p, "Encrypt")
             ELSE IF file = "unknown" THEN UpdateReturn(r, p, "Unknown")
             ELSE [r EXCEPT !.u[p].pc = "loaded",
                            !.u[p].meta = WithConfig(loaded, file, data)]
    /\ UNCHANGED restMeta

\* meta.Save: the metadata is written, or Update returns the error.
UpdateSave(p) ==
    /\ MetaOn /\ bm.u[p].pc = "loaded"
    /\ \E ok \in BOOLEAN :
          bm' = IF ok THEN [bm EXCEPT !.disk = bm.u[p].meta,
                                      !.u[p].pc = "saved"]
                ELSE UpdateReturn(bm, p, "Save")
    /\ UNCHANGED restMeta

\* sys.Set(bucket, meta) and the return of Update.
UpdateSet(p) ==
    /\ MetaOn /\ bm.u[p].pc = "saved"
    /\ bm' = [UpdateReturn(bm, p, "nil") EXCEPT
                 !.map = Set(bm, bm.u[p].bucket, bm.u[p].meta)]
    /\ UNCHANGED restMeta

\* A call of Set by another part of the server.
MetaSet ==
    /\ MetaOn /\ bm.ops < MaxMetaOps
    /\ \E bucket \in MetaBuckets :
       \E meta \in Metas :
          bm' = [bm EXCEPT !.map = Set(bm, bucket, meta), !.ops = @ + 1]
    /\ UNCHANGED restMeta

\* GetConfig: the entry of the map, or the loaded metadata, which is then
\* put in the map.
MetaGetConfig ==
    /\ MetaOn /\ bm.ops < MaxMetaOps
    /\ \E bucket \in MetaBuckets :
       \E lerr \in LoadOutcomes(bm) :
          bm' = IF \/ ~bm.objAPI \/ bm.gateway # ""
                   \/ bucket = minioMetaBucket
                   \/ bm.map[bucket] # NoMeta \/ lerr # "nil"
                THEN [bm EXCEPT !.ops = @ + 1]
                ELSE [bm EXCEPT !.ops = @ + 1, !.map[bucket] = bm.disk]
    /\ UNCHANGED restMeta

NextMeta ==
    \/ \E p \in 1..2 : UpdateBegin(p) \/ UpdateSave(p) \/ UpdateSet(p)
    \/ MetaSet \/ MetaGetConfig

SpecMeta == InitMeta /\ [][NextMeta]_vars

\* C34: a step of an Update call changes the map only when it is the call's
\* last step after a successful save, it then returns nil and the bucket's
\* entry is what was saved; a step in which Update returns an error leaves
\* the map as it was; and the map never holds an entry for the meta bucket.
C34_MapChangesAfterSave ==
    /\ [][\A p \in 1..2 :
            bm'.u[p] # bm.u[p] =>
               /\ bm'.map # bm.map =>
                     /\ bm.u[p].pc = "saved" /\ bm'.u[p].err = "nil"
                     /\ bm'.map = [bm.map EXCEPT ![bm.u[p].bucket] = bm.u[p].meta]
               /\ bm'.u[p].err \notin {"-", "nil"} => bm'.map = bm.map]_vars
    /\ [](MetaOn => bm.map[minioMetaBucket] = NoMeta)

\* An Update failed in meta.Save after another had saved and set the map.
C34_Witness ==
    /\ MetaOn /\ bm.u[1].err = "Save" /\ bm.u[2].err = "nil"
    /\ bm.u[2].pc = "done" /\ bm.map["b"] = bm.u[2].meta
    /\ bm.u[1].meta # bm.u[2].meta

\* Both Update calls have returned nil for different config files of the
\* bucket, outside gateway mode.
BothUpdated ==
    /\ MetaOn /\ bm.gateway = ""
    /\ \A p \in 1..2 : bm.u[p].pc = "done" /\ bm.u[p].err = "nil"
    /\ bm.u[1].bucket = bm.u[2].bucket /\ bm.u[1].file # bm.u[2].file

\* The metadata holds the data of the call's config file.
HasChange(meta, u) ==
    meta # NoMeta /\ WithConfig(meta, u.file, u.data) = meta

\* C35: after two Update calls for different config files of a bucket have
\* both returned nil, the saved metadata holds both changes, and so does
\* the map when nothing else wrote it.
C35_BothUpdatesTakeEffect ==
    BothUpdated =>
        /\ \A p \in 1..2 : HasChange(bm.disk, bm.u[p])
        /\ bm.ops = 0 => \A p \in 1..2 : HasChange(bm.map[bm.u[p].bucket], bm.u[p])

\* ---------------------------------------------------------------------
\* format.json of the FS backend: its content, the locks held on it, and
\* the processes that run initFormatFS on the same backend.

\* The processes started on the backend.
NumProcs == 2

formatFSVersionV1 == 1
formatFSVersionV2 == 2

FmtProcs == 1..NumProcs

\* format.json before the first process starts: missing, empty, or a file
\* of some backend and FS version, with a deployment ID (1) or without (0).
NoFile == [st |-> "absent", backend |-> "", version |-> 0, id |-> 0]

EmptyFile == [NoFile EXCEPT !.st = "empty"]

FormatFiles ==
    {NoFile, EmptyFile} \cup
    [st : {"file"}, backend : {"fs", "xl-single"},
     version : {formatFSVersionV1, formatFSVersionV2, formatFSVersionV2 + 1},
     id : {0, 1}]

IsFormat(file) == file.st = "file"

\* slept: the process found a lock held; kept: it held the write lock
\* and left the file as it was.
NoProc ==
    [pc |-> "fix", err |-> "-", id |-> 0, slept |-> FALSE, kept |-> FALSE]

InitFmt ==
    /\ \E file \in FormatFiles :
          ff = [file |-> file, readers |-> {}, writer |-> 0, nextID |-> 2,
                p |-> [q \in FmtProcs |-> NoProc]]
    /\ IdleButFmt

FmtOn == ff # <<>>

\* lock.TryLockedOpenFile: ErrAlreadyLocked when another descriptor holds a
\* lock on the file.
AlreadyLocked(r) == r.writer # 0 \/ r.readers # {}

FmtReturn(r, p, err) == [r EXCEPT !.p[p].pc = "done", !.p[p].err = err]

\* The error of the backend test, in both functions.
BackendErr(file) ==
    IF file.backend = "xl-single" THEN "FreshDisk"
    ELSE IF file.backend # "fs" THEN "FormatType"
    ELSE "nil"

\* formatFSFixDeploymentID, first part: lock.RLockedOpenFile waits for the
\* write lock to be released; a missing or empty file needs no fix.
FixOpen(p) ==
    /\ FmtOn /\ ff.p[p].pc = "fix"
    /\ ff.file # NoFile => ff.writer = 0
    /\ ff' = IF ff.file = NoFile THEN [ff EXCEPT !.p[p].pc = "open"]
             ELSE [ff EXCEPT !.readers = @ \cup {p}, !.p[p].pc = "fixRead"]
    /\ UNCHANGED restFmt

\* Stat, the backend test and jsonLoad under the read lock, rlk.Close on
\* every path, and the first test of format.ID.
FixRead(p) ==
    /\ FmtOn /\ ff.p[p].pc = "fixRead"
    /\ LET r == [ff EXCEPT !.readers = @ \ {p}]
       IN ff' = IF ff.file = EmptyFile THEN [r EXCEPT !.p[p].pc = "open"]
                ELSE IF BackendErr(ff.file) # "nil"
                     THEN FmtReturn(r, p, BackendErr(ff.file))
                ELSE IF ff.file.id # 0 THEN [r EXCEPT !.p[p].pc = "open"]
                ELSE [r EXCEPT !.p[p].pc = "fixLock"]
    /\ UNCHANGED restFmt

\* The loop of formatFSFixDeploymentID: the context is done, the lock is
\* held and the process sleeps, or the write lock is acquired.
FixLock(p) ==
    /\ FmtOn /\ ff.p[p].pc = "fixLock"
    /\ \E ctxDone \in BOOLEAN :
          ff' = IF ctxDone THEN FmtReturn(ff, p, "Stopped")
                ELSE IF AlreadyLocked(ff) THEN [ff EXCEPT !.p[p].slept = TRUE]
                ELSE [ff EXCEPT !.writer = p, !.p[p].pc = "fixWrite"]
    /\ UNCHANGED restFmt

\* The second test of format.ID, under the write lock.
FixRecheckNever(id) == FALSE
FixRecheck(id) == id # 0

\* jsonLoad under the write lock, the second test, mustGetUUID and
\* jsonSave; the deferred wlk.Close.
FixWrite(p) ==
    /\ FmtOn /\ ff.p[p].pc = "fixWrite"
    /\ LET r == [ff EXCEPT !.writer = 0, !.p[p].pc = "open"]
       IN ff' = IF FixRecheck(ff.file.id) THEN [r EXCEPT !.p[p].kept = TRUE]
                ELSE [r EXCEPT !.file.id = ff.nextID, !.nextID = @ + 1]
    /\ UNCHANGED restFmt

\* The head of the loop of initFormatFS: lock.RLockedOpenFile.
FmtOpen(p) ==
    /\ FmtOn /\ ff.p[p].pc = "open"
    /\ ff.file # NoFile => ff.writer = 0
    /\ ff' = IF ff.file = NoFile THEN [ff EXCEPT !.p[p].pc = "create"]
             ELSE [ff EXCEPT !.readers = @ \cup {p}, !.p[p].pc = "opened"]
    /\ UNCHANGED restFmt

\* if version != formatFSVersionV2: the format needs migration.
NeedsMigrationNever(version) == FALSE
NeedsMigration(version) == version # formatFSVersionV2

\* The reads under the read lock: the size, the backend, the FS version and
\* the deployment ID. The lock is closed before createFormatFS and before
\* the migration, and kept on the other paths.
FmtRead(p) ==
    /\ FmtOn /\ ff.p[p].pc = "opened"
    /\ LET closed == [ff EXCEPT !.readers = @ \ {p}]
       IN ff' = IF ff.file = EmptyFile THEN [closed EXCEPT !.p[p].pc = "create"]
                ELSE IF BackendErr(ff.file) # "nil"
                     THEN FmtReturn(ff, p, BackendErr(ff.file))
                ELSE IF NeedsMigration(ff.file.version)
                     THEN [closed EXCEPT !.p[p].pc = "migLock"]
                ELSE [FmtReturn(ff, p, "nil") EXCEPT !.p[p].id = ff.file.id]
    /\ UNCHANGED restFmt

\* createFormatFS, the open: O_CREATE makes the file, then the lock is
\* tried; ErrAlreadyLocked makes initFormatFS sleep and continue.
CreateLock(p) ==
    /\ FmtOn /\ ff.p[p].pc = "create"
    /\ LET r == [ff EXCEPT !.file = IF @ = NoFile THEN EmptyFile ELSE @]
       IN ff' = IF AlreadyLocked(ff)
                THEN [r EXCEPT !.p[p].slept = TRUE, !.p[p].pc = "open"]
                ELSE [r EXCEPT !.writer = p, !.p[p].pc = "creating"]
    /\ UNCHANGED restFmt

\* createFormatFS under the write lock: a file that is not empty is left
\* alone, an empty one gets newFormatFSV1 with a new deployment ID.
CreateWrite(p) ==
    /\ FmtOn /\ ff.p[p].pc = "creating"
    /\ LET r == [ff EXCEPT !.writer = 0, !.p[p].pc = "open"]
       IN ff' = IF ff.file # EmptyFile THEN [r EXCEPT !.p[p].kept = TRUE]
                ELSE [r EXCEPT !.file = [st |-> "file", backend |-> "fs",
                                         version |-> formatFSVersionV1,
                                         id |-> ff.nextID],
                               !.nextID = @ + 1]
    /\ UNCHANGED restFmt

\* The write lock for the migration, tried after rlk.Close.
MigrateLock(p) ==
    /\ FmtOn /\ ff.p[p].pc = "migLock"
    /\ ff' = IF AlreadyLocked(ff)
             THEN [ff EXCEPT !.p[p].slept = TRUE, !.p[p].pc = "open"]
             ELSE [ff EXCEPT !.writer = p, !.p[p].pc = "migrate"]
    /\ UNCHANGED restFmt

\* formatFSMigrate under the write lock, and wlk.Close: version 1 becomes
\* version 2 with the rest of the file kept, or the migration fails;
\* version 2 is left alone; any other version is an error.
Migrate(p) ==
    /\ FmtOn /\ ff.p[p].pc = "migrate"
    /\ \E ok \in BOOLEAN :
          LET r == [ff EXCEPT !.writer = 0, !.p[p].pc = "open"]
          IN ff' = IF ff.file.version = formatFSVersionV1
                   THEN (IF ok THEN [r EXCEPT !.file.version = formatFSVersionV2]
                         ELSE FmtReturn(r, p, "Migrate"))
                   ELSE IF ff.file.version = formatFSVersionV2 THEN r
                   ELSE FmtReturn(r, p, "UnexpectedBackendVersion")
    /\ UNCHANGED restFmt

NextFmt ==
    \E p \in FmtProcs :
       \/ FixOpen(p) \/ FixRead(p) \/ FixLock(p) \/ FixWrite(p)
       \/ FmtOpen(p) \/ FmtRead(p)
       \/ CreateLock(p) \/ CreateWrite(p)
       \/ MigrateLock(p) \/ Migrate(p)

SpecFmt == InitFmt /\ [][NextFmt]_vars

\* initFormatFS has returned nil.
FmtReady(r, p) == r.p[p].pc = "done" /\ r.p[p].err = "nil"

\* C36: a process for which initFormatFS returned nil holds a read lock on
\* a format.json of backend fs and FS version 2; the version goes from 1
\* to 2 only in a step of a process that holds the write lock, alone, and
\* no read lock; a process that finds the lock held sleeps and goes back
\* to the head of the loop without an error; and the successful return is
\* the step that read the file under the read lock.
C36_ReturnsWithReadLockOnV2 ==
    /\ [](FmtOn => \A p \in FmtProcs :
            FmtReady(ff, p) =>
               /\ p \in ff.readers /\ ff.writer = 0 /\ IsFormat(ff.file)
               /\ ff.file.backend = "fs"
               /\ ff.file.version = formatFSVersionV2)
    /\ [][(IsFormat(ff.file) /\ ff'.file # ff.file
              /\ ff.file.version = formatFSVersionV1
              /\ ff'.file.version = formatFSVersionV2) =>
             /\ ff.writer # 0 /\ ff.readers = {}
             /\ ff.p[ff.writer].pc = "migrate"
             /\ ff'.p[ff.writer] # ff.p[ff.writer]]_vars
    /\ [][\A p \in FmtProcs :
             (ff.p[p].pc \in {"create", "migLock"} /\ AlreadyLocked(ff)
                 /\ ff'.p[p] # ff.p[p]) =>
                (ff'.p[p].pc = "open" /\ ff'.p[p].slept /\ ff'.p[p].err = "-")]_vars
    /\ [][\A p \in FmtProcs :
             (FmtReady(ff', p) /\ ~FmtReady(ff, p)) =>
                (ff.p[p].pc = "opened" /\ p \in ff.readers
                    /\ ff' = [FmtReturn(ff, p, "nil") EXCEPT !.p[p].id = ff.file.id])]_vars

\* Both processes returned nil from initFormatFS, one of them after it
\* slept on a held lock, on a file that was created by one of them.
C36_Witness ==
    /\ FmtOn /\ \A p \in FmtProcs : FmtReady(ff, p)
    /\ \E p \in FmtProcs : ff.p[p].slept
    /\ ff.file.id >= 2

\* C37: a deployment ID that is in format.json stays there, and the
\* processes for which initFormatFS returned nil all have the file's ID.
C37_DeploymentIDStable ==
    /\ [][(IsFormat(ff.file) /\ ff.file.id # 0) =>
             (IsFormat(ff'.file) /\ ff'.file.id = ff.file.id)]_vars
    /\ [](FmtOn => \A p \in FmtProcs :
            FmtReady(ff, p) => (ff.p[p].id = ff.file.id /\ ff.p[p].id # 0))

\* One process wrote a deployment ID, another took the write lock after it
\* and left the file alone; both returned with the one ID.
C37_Witness ==
    /\ FmtOn /\ \A p \in FmtProcs : FmtReady(ff, p) /\ ff.p[p].id = 2
    /\ ff.nextID = 3
    /\ \E p \in FmtProcs : ff.p[p].kept

\* ---------------------------------------------------------------------
\* NATSTarget: the queue store, the connection, what was published on the
\* subject, and the calls of Save and Send.

\* The events saved.
MaxEvents == 2
\* The calls of Send.
MaxSends == 2

EventKeys == 1..MaxEvents

NoSend == [pc |-> "idle", key |-> 0, was |-> 0, err |-> "-"]

\* A target with or without a queue store; the connection is made by the
\* first isActive. saved counts the events given to Save, direct those
\* published by Save itself.
InitNats ==
    /\ \E hasStore \in BOOLEAN :
          nt = [hasStore |-> hasStore, conn |-> "nil", store |-> {},
                saved |-> 0, direct |-> 0,
                published |-> [k \in EventKeys |-> 0],
                sends |-> 0, s |-> NoSend]
    /\ IdleButNats

NatsOn == nt # <<>>

\* isActive: a missing connection is made, which can fail; an existing
\* one that is not connected gives errNotConnected.
IsActiveErr(conn, up) ==
    IF up THEN "nil" ELSE IF conn = "nil" THEN "Connect" ELSE "NotConnected"

AfterIsActive(r, up) == IF up THEN [r EXCEPT !.conn = "set"] ELSE r

\* Save: with a store the event is put in the store, which can fail;
\* without one it is published when the target is active.
NatsSave ==
    /\ NatsOn /\ nt.saved < MaxEvents
    /\ \E initOK \in BOOLEAN :
       \E up \in BOOLEAN :
       \E ok \in BOOLEAN :
          LET r == [nt EXCEPT !.saved = @ + 1]
          IN nt' =
             IF ~initOK THEN r
             ELSE IF nt.hasStore
                  THEN (IF ok THEN [r EXCEPT !.store = @ \cup {r.saved}] ELSE r)
             ELSE IF IsActiveErr(nt.conn, up) # "nil" THEN r
             ELSE IF ok THEN [AfterIsActive(r, up) EXCEPT !.direct = @ + 1]
             ELSE AfterIsActive(r, up)
    /\ UNCHANGED restNats

SendReturn(r, err) == [r EXCEPT !.s.pc = "done", !.s.err = err]

\* Send up to store.Get: init and isActive, for a key the replay took
\* from the store's list, which may be gone by now.
SendBegin ==
    /\ NatsOn /\ nt.hasStore /\ nt.s.pc \in {"idle", "done"}
    /\ nt.sends < MaxSends
    /\ \E key \in EventKeys :
       \E initOK \in BOOLEAN :
       \E up \in BOOLEAN :
          LET r == [nt EXCEPT !.sends = @ + 1,
                              !.s = [NoSend EXCEPT !.key = key,
                                                   !.was = nt.published[key]]]
          IN nt' = IF ~initOK THEN SendReturn(r, "Init")
                   ELSE IF IsActiveErr(nt.conn, up) # "nil"
                        THEN SendReturn(r, IsActiveErr(nt.conn, up))
                   ELSE [AfterIsActive(r, up) EXCEPT !.s.pc = "get"]
    /\ UNCHANGED restNats

\* store.Get: the event, os.IsNotExist for which Send returns nil, or
\* another error.
SendGet ==
    /\ NatsOn /\ nt.s.pc = "get"
    /\ \E readOK \in BOOLEAN :
          nt' = IF nt.s.key \notin nt.store THEN SendReturn(nt, "nil")
                ELSE IF ~readOK THEN SendReturn(nt, "Get")
                ELSE [nt EXCEPT !.s.pc = "send"]
    /\ UNCHANGED restNats

\* if err := target.send(eventData); err != nil { return err }
SendFailedNever(err) == FALSE
SendFailed(err) == err # "nil"

\* target.send: the publish returns nil or an error.
SendPublish ==
    /\ NatsOn /\ nt.s.pc = "send"
    /\ \E err \in {"nil", "Publish"} :
          LET r == IF err = "nil"
                   THEN [nt EXCEPT !.published[nt.s.key] = @ + 1] ELSE nt
          IN nt' = IF SendFailed(err) THEN SendReturn(r, err)
                   ELSE [r EXCEPT !.s.pc = "del"]
    /\ UNCHANGED restNats

\* return target.store.Del(eventKey)
SendDel ==
    /\ NatsOn /\ nt.s.pc = "del"
    /\ \E ok \in BOOLEAN :
          nt' = IF ok THEN [SendReturn(nt, "nil") EXCEPT !.store = @ \ {nt.s.key}]
                ELSE SendReturn(nt, "Del")
    /\ UNCHANGED restNats

NextNats == NatsSave \/ SendBegin \/ SendGet \/ SendPublish \/ SendDel

SpecNats == InitNats /\ [][NextNats]_vars

\* C38: a step that takes a key out of the store is the last step of a
\* Send call for that key, which published the event since it began; a
\* step in which Send returns an error of init, isActive or the publish
\* leaves the store as it was; a Send for a key that is not in the store
\* returns nil and publishes nothing; and a Save on a target with a store
\* publishes nothing.
C38_DeletedAfterPublish ==
    /\ [][\A k \in EventKeys :
             (k \in nt.store /\ k \notin nt'.store) =>
                /\ nt.s.pc = "del" /\ nt.s.key = k
                /\ nt.published[k] > nt.s.was
                /\ nt'.s.pc = "done" /\ nt'.s.err = "nil"]_vars
    /\ [][(nt'.s # nt.s
              /\ nt'.s.err \in {"Init", "Connect", "NotConnected", "Publish"}) =>
             (nt'.store = nt.store /\ nt'.published = nt.published)]_vars
    /\ [][(nt.s.pc = "get" /\ nt.s.key \notin nt.store /\ nt'.s # nt.s) =>
             (nt'.s.err = "nil" /\ nt'.s.pc = "done"
                 /\ nt'.published = nt.published /\ nt'.store = nt.store)]_vars
    /\ [][(nt.hasStore /\ nt'.saved # nt.saved) =>
             (nt'.published = nt.published /\ nt'.direct = nt.direct
                 /\ nt'.store \in {nt.store, nt.store \cup {nt'.saved}})]_vars

\* The first Send of an event failed in the publish and left it in the
\* store; the second published and deleted it, the other event is stored.
C38_Witness ==
    /\ NatsOn /\ nt.hasStore /\ nt.sends = 2
    /\ nt.s.pc = "done" /\ nt.s.err = "nil" /\ nt.s.key = 1
    /\ nt.published[1] = 1 /\ nt.s.was = 0
    /\ nt.store = {2}

\* ---------------------------------------------------------------------
\* healErasureSet: the loop over the buckets, the healing tracker, the job
\* tokens, the healEntry goroutines of the bucket being listed, and the
\* goroutine of each bucket that applies the heal results to the tracker.

\* The buckets given to healErasureSet.
NumBuckets == 2
\* The entries the listing of a bucket reports.
MaxEntries == 2
\* The values of _MINIO_HEAL_WORKERS, 0 standing for an invalid one.
MaxHealers == 2

HealBuckets == 1..NumBuckets

\* numHealers: at least 1.
NumHealers(v) == IF v < 1 THEN 1 ELSE v

\* A healEntry goroutine: not started (-1), finished (-2), or running with
\* a number of results left to send.
NotStarted == 0 - 1
Finished == 0 - 2

NoEntries == [e \in 1..MaxEntries |-> NotStarted]

\* The tracker holds the buckets healed by an earlier run.
InitHeal ==
    /\ \E v \in 0..MaxHealers :
       \E healed \in SUBSET HealBuckets :
          hl = [n |-> NumHealers(v), healed0 |-> healed, healed |-> healed,
                i |-> 1, pc |-> "loop", lerr |-> "-",
                listErr |-> [b \in HealBuckets |-> "-"],
                noDisk |-> [b \in HealBuckets |-> FALSE],
                ctx |-> FALSE, out |-> 0, g |-> NoEntries,
                col |-> [b \in HealBuckets |-> "off"],
                closed |-> [b \in HealBuckets |-> FALSE],
                panic |-> FALSE, retErr |-> "nil", err |-> "-"]
    /\ IdleButHeal

HealOn == hl # <<>>

\* continue: the next bucket.
HealContinue(r) == [r EXCEPT !.i = @ + 1, !.pc = "loop", !.g = NoEntries]

\* The head of the loop for one bucket: a healed bucket is skipped, a
\* failing HealBucket skips the bucket, a set with no listable disk marks
\* the bucket done, otherwise the results goroutine is started and the
\* listing begins. After the last bucket retErr is returned.
HealBegin ==
    /\ HealOn /\ hl.pc = "loop"
    /\ \E healOK \in BOOLEAN :
       \E disks \in 0..1 :
          hl' = IF hl.i > NumBuckets
                THEN [hl EXCEPT !.pc = "done", !.err = hl.retErr]
                ELSE IF hl.i \in hl.healed THEN HealContinue(hl)
                ELSE IF ~healOK THEN HealContinue(hl)
                ELSE IF disks = 0
                     THEN HealContinue([hl EXCEPT !.healed = @ \cup {hl.i},
                                                  !.noDisk[hl.i] = TRUE])
                ELSE [hl EXCEPT !.pc = "list", !.col[hl.i] = "recv"]
    /\ UNCHANGED restHeal

\* The agreed and partial callbacks of listPathRaw: jt.Take, which waits
\* for a token, and go healEntry for an entry that will send no result
\* (ignored), one (queueHealTask) or two (a version and entryDone).
HealList ==
    /\ HealOn /\ hl.pc = "list"
    /\ hl.out < hl.n
    /\ \E e \in 1..MaxEntries :
       \E left \in 0..2 :
          /\ hl.g[e] = NotStarted
          /\ \A d \in 1..(e - 1) : hl.g[d] # NotStarted
          /\ hl' = [hl EXCEPT !.out = @ + 1, !.g[e] = left]
    /\ UNCHANGED restHeal

\* listPathRaw returns: nil, an error, or the error of a done context.
HealListed ==
    /\ HealOn /\ hl.pc = "list"
    /\ \E err \in {"nil", "Other"} \cup (IF hl.ctx THEN {"Canceled"} ELSE {}) :
          hl' = [hl EXCEPT !.pc = "wait", !.lerr = err, !.listErr[hl.i] = err]
    /\ UNCHANGED restHeal

\* jt.Wait: every token was given back.
WaitedNever(r) == TRUE
Waited(r) == r.out = 0

\* jt.Wait and close(results).
HealClose ==
    /\ HealOn /\ hl.pc = "wait"
    /\ Waited(hl)
    /\ hl' = [hl EXCEPT !.pc = "mark", !.closed[hl.i] = TRUE]
    /\ UNCHANGED restHeal

\* The bucket is marked done: the listing gave no error and the context
\* is not done.
MarksDoneAlways(lerr, ctxDone) == TRUE
MarksDone(lerr, ctxDone) == lerr = "nil" /\ ~ctxDone

\* After close(results): a listing error is kept in retErr, a done
\* context returns its error, otherwise tracker.bucketDone.
HealMark ==
    /\ HealOn /\ hl.pc = "mark"
    /\ hl' = IF MarksDone(hl.lerr, hl.ctx)
             THEN HealContinue([hl EXCEPT !.healed = @ \cup {hl.i}])
             ELSE IF hl.lerr # "nil"
                  THEN HealContinue([hl EXCEPT !.retErr = hl.lerr])
             ELSE [hl EXCEPT !.pc = "done", !.err = "Canceled"]
    /\ UNCHANGED restHeal

\* healEntry sends a result: the results goroutine receives it, or the
\* channel is closed and the send panics.
EntrySend(e) ==
    /\ HealOn /\ hl.g[e] > 0 /\ hl.i \in HealBuckets
    /\ hl.closed[hl.i] \/ hl.col[hl.i] = "recv"
    /\ hl' = IF hl.closed[hl.i] THEN [hl EXCEPT !.panic = TRUE, !.g[e] = Finished]
             ELSE [hl EXCEPT !.g[e] = @ - 1, !.col[hl.i] = "apply"]
    /\ UNCHANGED restHeal

\* healEntry returns, at its end or in a select with the context done;
\* the deferred jt.Give.
EntryEnd(e) ==
    /\ HealOn /\ hl.g[e] >= 0
    /\ hl.g[e] > 0 => hl.ctx
    /\ hl' = [hl EXCEPT !.g[e] = Finished, !.out = @ - 1]
    /\ UNCHANGED restHeal

\* The results goroutine applies the result it received to the tracker.
ResultApply(b) ==
    /\ HealOn /\ hl.col[b] = "apply"
    /\ hl' = [hl EXCEPT !.col[b] = "recv"]
    /\ UNCHANGED restHeal

\* The range over results ends when the channel is closed.
ResultEnd(b) ==
    /\ HealOn /\ hl.col[b] = "recv" /\ hl.closed[b]
    /\ hl' = [hl EXCEPT !.col[b] = "exit"]
    /\ UNCHANGED restHeal

\* The context of healErasureSet is cancelled.
HealCancel ==
    /\ HealOn /\ ~hl.ctx /\ hl.pc # "done"
    /\ hl' = [hl EXCEPT !.ctx = TRUE]
    /\ UNCHANGED restHeal

NextHeal ==
    \/ HealBegin \/ HealList \/ HealListed \/ HealClose \/ HealMark
    \/ \E e \in 1..MaxEntries : EntrySend(e) \/ EntryEnd(e)
    \/ \E b \in HealBuckets : ResultApply(b) \/ ResultEnd(b)
    \/ HealCancel

SpecHeal == InitHeal /\ [][NextHeal]_vars

\* C39: a bucket is marked done either in the step after its listing, when
\* the listing returned nil and the context is not done, or on finding no
\* listable disk; a bucket healed before is not listed; a bucket whose
\* listing failed is not marked; and when a listing failed healErasureSet
\* returns an error, the last listing error when it returns at the end of
\* the loop.
C39_DoneOnlyAfterCleanListing ==
    /\ [][\A b \in HealBuckets :
             (b \in hl'.healed /\ b \notin hl.healed) =>
                /\ b = hl.i
                /\ \/ hl.pc = "mark" /\ hl.lerr = "nil" /\ ~hl.ctx
                   \/ hl.pc = "loop" /\ hl'.noDisk[b]]_vars
    /\ [](HealOn => \A b \in HealBuckets :
            /\ b \in hl.healed0 =>
                  (hl.listErr[b] = "-" /\ ~hl.noDisk[b] /\ hl.col[b] = "off")
            /\ hl.listErr[b] \notin {"-", "nil"} => b \notin hl.healed
            /\ (hl.pc = "done" /\ hl.listErr[b] \notin {"-", "nil"}) =>
                  /\ hl.err # "nil"
                  /\ hl.i > NumBuckets => (hl.err = hl.retErr /\ hl.retErr # "nil"))

\* The first bucket's listing failed and the second bucket was healed and
\* marked; healErasureSet returned the listing error.
C39_Witness ==
    /\ HealOn /\ hl.pc = "done" /\ hl.healed0 = {}
    /\ hl.listErr[1] = "Other" /\ hl.listErr[NumBuckets] = "nil"
    /\ hl.healed = {NumBuckets} /\ hl.err = "Other"

\* The healEntry goroutines that run.
EntriesRunning(r) == {e \in 1..MaxEntries : r.g[e] >= 0}

\* The part of C40 about the job tokens and the close of the channel.
TokensSafe ==
    HealOn =>
       /\ ~hl.panic
       /\ hl.n >= 1
       /\ Cardinality(EntriesRunning(hl)) = hl.out /\ hl.out <= hl.n
       /\ (hl.i \in HealBuckets /\ hl.closed[hl.i]) => EntriesRunning(hl) = {}

\* C40: the results channel of a bucket is closed only with no healEntry
\* goroutine running and no send panics; the goroutines running are as
\* many as the tokens taken and at most numHealers, which is at least 1;
\* and when the bucket is marked done after its listing, its results
\* goroutine is not in the middle of a tracker update.
C40_ResultsCompleteBeforeDone ==
    /\ []TokensSafe
    /\ [][\A b \in HealBuckets :
             (b \in hl'.healed /\ b \notin hl.healed /\ hl.pc = "mark") =>
                hl.col[b] # "apply"]_vars

====
